---------------------------- MODULE Spec2Model ----------------------------
(***************************************************************************)
(* A model of the lab-portal client (crawler.py, class LabCrawler) and of  *)
(* the bot handlers that drive it (bot.py).                                *)
(*                                                                         *)
(* Text is modelled by TLA+ strings; Python's str methods are operators    *)
(* over them.  A parsed HTML document is a record of the elements that the *)
(* code looks at (form, anchors, table rows, object, iframe); the raw      *)
(* response text is the serialisation of that record (page_text).          *)
(***************************************************************************)
EXTENDS Integers, Sequences, FiniteSets, TLC

VARIABLES
    results_url,   \* LabCrawler.results_url (Null until a login succeeds)
    pc,            \* "idle": no call in progress; "returned": a call has ended
    call,          \* the call that ended last: operation, arguments, responses
    outcome,       \* how that call ended: a returned value or a raised exception
    requests,      \* the HTTP requests that call issued, in order
    tested,        \* the rows that call passed to _is_row_green, in order
    db,            \* the users table of Database, by telegram_id
    user_data,     \* context.user_data['waiting_for_credentials'], by user
    cycle,         \* check_all_users: not running, or suspended at an await
    log,           \* what the handler that ran last did, in order
    unsubscribed   \* history: the users /remove has told that their credentials
                   \* were removed and who have not registered again since

clientvars == <<results_url, pc, call, outcome, requests, tested>>
botvars == <<db, user_data, cycle, log, unsubscribed>>
vars == <<results_url, pc, call, outcome, requests, tested,
          db, user_data, cycle, log, unsubscribed>>

\* Python's None, where the other values are strings and where they are
\* records.
Null == "<None>"
None == [tag |-> "None"]

(***************************************************************************)
(* Python str methods.                                                     *)
(***************************************************************************)

\* s[i] as a one-character string.
CharAt(s, i) == SubSeq(s, i, i)

\* t in s
Contains(t, s) ==
    \E i \in 1..(Len(s) - Len(t) + 1) : SubSeq(s, i, i + Len(t) - 1) = t

\* s.startswith(t)
StartsWith(s, t) == Len(s) >= Len(t) /\ SubSeq(s, 1, Len(t)) = t

\* s.endswith(t)
EndsWith(s, t) ==
    Len(s) >= Len(t) /\ SubSeq(s, Len(s) - Len(t) + 1, Len(s)) = t

UpperChars == "ABCDEFGHIJKLMNOPQRSTUVWXYZ"
LowerChars == "abcdefghijklmnopqrstuvwxyz"

\* The lower-case letter of each upper-case letter.
LowerOf ==
    [c \in { CharAt(UpperChars, k) : k \in 1..Len(UpperChars) } |->
        CharAt(LowerChars, CHOOSE k \in 1..Len(UpperChars) : CharAt(UpperChars, k) = c)]

LowerChar(c) == IF c \in DOMAIN LowerOf THEN LowerOf[c] ELSE c

\* s.lower(), character by character (the string is halved to keep the
\* evaluation shallow).
RECURSIVE Lower(_)
Lower(s) ==
    IF Len(s) = 0 THEN ""
    ELSE IF Len(s) = 1 THEN LowerChar(s)
    ELSE Lower(SubSeq(s, 1, Len(s) \div 2)) \o Lower(SubSeq(s, Len(s) \div 2 + 1, Len(s)))

\* s.replace(c, '') for a one-character c
RECURSIVE RemoveChar(_, _)
RemoveChar(s, c) ==
    IF s = "" THEN ""
    ELSE (IF CharAt(s, 1) = c THEN "" ELSE CharAt(s, 1)) \o RemoveChar(Tail(s), c)

\* s.strip(chars): the characters of `chars` removed from both ends.
RECURSIVE LStripChars(_, _)
LStripChars(s, chars) ==
    IF s # "" /\ Contains(CharAt(s, 1), chars) THEN LStripChars(Tail(s), chars) ELSE s

RECURSIVE RStripChars(_, _)
RStripChars(s, chars) ==
    IF s # "" /\ Contains(CharAt(s, Len(s)), chars)
    THEN RStripChars(SubSeq(s, 1, Len(s) - 1), chars)
    ELSE s

StripChars(s, chars) == RStripChars(LStripChars(s, chars), chars)

\* s.strip()
Strip(s) == StripChars(s, " \n\t")

\* The index of the first occurrence of t in s at or after i, or 0.
FindFrom(s, t, i) ==
    IF \E k \in i..(Len(s) - Len(t) + 1) : SubSeq(s, k, k + Len(t) - 1) = t
    THEN CHOOSE k \in i..(Len(s) - Len(t) + 1) :
            /\ SubSeq(s, k, k + Len(t) - 1) = t
            /\ \A j \in i..(k - 1) : SubSeq(s, j, j + Len(t) - 1) # t
    ELSE 0

\* s.split(sep) for a non-empty separator: the list of the parts.
RECURSIVE Split(_, _)
Split(s, sep) ==
    LET k == FindFrom(s, sep, 1) IN
    IF k = 0 THEN <<s>>
    ELSE <<SubSeq(s, 1, k - 1)>> \o Split(SubSeq(s, k + Len(sep), Len(s)), sep)

\* sep.join(parts)
RECURSIVE Join(_, _)
Join(parts, sep) ==
    IF parts = <<>> THEN ""
    ELSE IF Len(parts) = 1 THEN parts[1]
    ELSE parts[1] \o sep \o Join(Tail(parts), sep)


(***************************************************************************)
(* HTML elements.  A table row <tr> carries its own style, class (a list of *)
(* tokens, as the parser gives a multi-valued attribute) and bgcolor, and  *)
(* its cells in document order; a cell is a <th> or a <td>.                *)
(***************************************************************************)

Cell(tag, style, class, text) ==
    [tag |-> tag, style |-> style, class |-> class, text |-> text]

Row(style, class, bgcolor, cells) ==
    [style |-> style, class |-> class, bgcolor |-> bgcolor, cells |-> cells]

\* row.find_all('td')
RECURSIVE find_all_td(_)
find_all_td(cells) ==
    IF cells = <<>> THEN <<>>
    ELSE (IF cells[1].tag = "td" THEN <<cells[1]>> ELSE <<>>) \o find_all_td(Tail(cells))

\* The condition of the if statement in the loop over the cells.
cell_is_green(cell) ==
    LET cell_style == Lower(cell.style)
        cell_class == Lower(Join(cell.class, " "))
        cell_text  == Lower(Strip(cell.text))
    IN  \/ Contains("green", cell_style) \/ Contains("green", cell_class)
        \/ Contains("#00ff00", cell_style) \/ Contains("#0f0", cell_style)
        \/ Contains("rgb(0,255,0)", cell_style)
        \/ Contains("background-color:green", RemoveChar(cell_style, " "))
        \/ Contains("success", cell_class) \/ Contains("ready", cell_class)
        \/ Contains("disponivel", cell_text) \/ Contains("pronto", cell_text)
        \/ Contains("liberado", cell_text) \/ Contains("concluido", cell_text)

\* The loop over the cells: cell_green is set, and the loop left, at the
\* first cell that is green.
RECURSIVE cell_green_loop(_)
cell_green_loop(cells) ==
    IF cells = <<>> THEN FALSE
    ELSE IF cell_is_green(cells[1]) THEN TRUE
    ELSE cell_green_loop(Tail(cells))

\* A slip the greenness test could have: the light-green hex looked for in
\* the style instead of the bgcolor attribute.
is_row_green_hex_in_style(row) ==
    LET style      == Lower(row.style)
        class_attr == Lower(Join(row.class, " "))
        bgcolor    == Lower(row.bgcolor)
        cell_green == cell_green_loop(find_all_td(row.cells))
    IN  \/ Contains("green", style)
        \/ Contains("green", class_attr)
        \/ Contains("#00ff00", style)
        \/ Contains("#0f0", style)
        \/ Contains("rgb(0,255,0)", style)
        \/ Contains("background-color:green", RemoveChar(style, " "))
        \/ Contains("success", class_attr)
        \/ Contains("ready", Lower(class_attr))
        \/ Contains("disponivel", Lower(class_attr))
        \/ cell_green
        \/ Contains("#8ff08f", style)
        \/ Contains("green", bgcolor)

\* LabCrawler._is_row_green
is_row_green(row) ==
    LET style      == Lower(row.style)
        class_attr == Lower(Join(row.class, " "))
        bgcolor    == Lower(row.bgcolor)
        cell_green == cell_green_loop(find_all_td(row.cells))
    IN  \/ Contains("green", style)
        \/ Contains("green", class_attr)
        \/ Contains("#00ff00", style)
        \/ Contains("#0f0", style)
        \/ Contains("rgb(0,255,0)", style)
        \/ Contains("background-color:green", RemoveChar(style, " "))
        \/ Contains("success", class_attr)
        \/ Contains("ready", Lower(class_attr))
        \/ Contains("disponivel", Lower(class_attr))
        \/ cell_green
        \/ Contains("#8ff08f", bgcolor)
        \/ Contains("green", bgcolor)


(***************************************************************************)
(* HTTP.  A response is what one request of the session comes back with:   *)
(* a transport error (the request raises), or a status, the content-type   *)
(* and content-disposition headers, the final URL and a body.  A body is   *)
(* an HTML document or raw bytes.                                          *)
(***************************************************************************)

base_url == "https://lablaudo.com.br"
login_url == base_url \o "/acesso_paciente"

Anchor(href, text) == [href |-> href, text |-> text]

\* An HTML document: free text, the first form (or None), the anchors and
\* the table rows in document order, the value of the base64-param of the
\* first <object type="application/pdf"> and the src of the first
\* <iframe type="application/pdf"> (Null where the element or the attribute
\* is absent).
Html(text, form, anchors, rows, object, iframe) ==
    [kind |-> "html", text |-> text, form |-> form, anchors |-> anchors,
     rows |-> rows, object |-> object, iframe |-> iframe]

Raw(data) == [kind |-> "raw", data |-> data]

EmptyHtml == Html("", None, <<>>, <<>>, Null, Null)

Response(status, ctype, disposition, url, body) ==
    [err |-> "none", status |-> status, ctype |-> ctype,
     disposition |-> disposition, url |-> url, body |-> body]

\* A request that raises before any response arrives.
Failed(err) ==
    [err |-> err, status |-> 0, ctype |-> "", disposition |-> "", url |-> "",
     body |-> Raw("")]

Request(method, url) == [method |-> method, url |-> url]

\* requests.RequestException and the subclasses raised here.
RequestException == { "ConnectionError", "Timeout", "HTTPError" }

\* response.raise_for_status(): HTTPError for a 4xx or 5xx status.
raise_for_status(r) == r.status >= 400 /\ r.status < 600

\* session.get(...) followed by response.raise_for_status(): the exception
\* raised, or Null.
RaisedBy(r) ==
    IF r.err # "none" THEN r.err
    ELSE IF raise_for_status(r) THEN "HTTPError"
    ELSE Null

RECURSIVE CellsText(_)
CellsText(cells) ==
    IF cells = <<>> THEN "" ELSE cells[1].text \o CellsText(Tail(cells))

\* row.get_text(): the text of the cells, concatenated.
row_get_text(row) == CellsText(row.cells)

\* An attribute in the source of an element; one without value is not written.
AttrSource(name, value) ==
    IF value = Null \/ value = "" THEN "" ELSE " " \o name \o "=\"" \o value \o "\""

RECURSIVE CellsSource(_)
CellsSource(cells) ==
    IF cells = <<>> THEN ""
    ELSE "<" \o cells[1].tag \o AttrSource("style", cells[1].style)
         \o AttrSource("class", Join(cells[1].class, " ")) \o ">" \o cells[1].text
         \o "</" \o cells[1].tag \o ">" \o CellsSource(Tail(cells))

RECURSIVE RowsSource(_)
RowsSource(rows) ==
    IF rows = <<>> THEN ""
    ELSE "<tr" \o AttrSource("style", rows[1].style)
         \o AttrSource("class", Join(rows[1].class, " "))
         \o AttrSource("bgcolor", rows[1].bgcolor) \o ">" \o CellsSource(rows[1].cells)
         \o "</tr>" \o RowsSource(Tail(rows))

RECURSIVE AnchorsSource(_)
AnchorsSource(anchors) ==
    IF anchors = <<>> THEN ""
    ELSE "<a" \o (IF anchors[1].href = Null THEN ""
                  ELSE " href=\"" \o anchors[1].href \o "\"")
         \o ">" \o anchors[1].text \o "</a>" \o AnchorsSource(Tail(anchors))

Input(type, name, value) == [type |-> type, name |-> name, value |-> value]

\* A form: its action attribute (Null when absent) and its input elements.
Form(action, inputs) == [action |-> action, inputs |-> inputs]

RECURSIVE InputsSource(_)
InputsSource(inputs) ==
    IF inputs = <<>> THEN ""
    ELSE "<input" \o AttrSource("type", inputs[1].type)
         \o AttrSource("name", inputs[1].name)
         \o AttrSource("value", inputs[1].value) \o ">"
         \o InputsSource(Tail(inputs))

FormSource(form) ==
    IF form = None THEN ""
    ELSE "<form" \o AttrSource("action", form.action) \o ">"
         \o InputsSource(form.inputs) \o "</form>"

\* response.text: the source of the document, or the raw data.
response_text(r) ==
    IF r.body.kind = "raw" THEN r.body.data
    ELSE "<html>" \o r.body.text
         \o FormSource(r.body.form)
         \o AnchorsSource(r.body.anchors)
         \o (IF r.body.rows = <<>> THEN ""
             ELSE "<table>" \o RowsSource(r.body.rows) \o "</table>")
         \o "</html>"

\* response.content
response_content(r) == response_text(r)

\* BeautifulSoup(response.text, 'html.parser'): raw data holds no element.
BeautifulSoup(r) == IF r.body.kind = "html" THEN r.body ELSE EmptyHtml

\* The three places that build a full URL from an href.
absolutize(href) ==
    IF StartsWith(href, "/") THEN base_url \o href
    ELSE IF ~ StartsWith(href, "http") THEN base_url \o "/" \o href
    ELSE href

\* Python's truth value of results_url: None and '' are false.
Truthy(u) == u # Null /\ u # ""

(***************************************************************************)
(* The bot before any update has been handled: an empty users table, no    *)
(* user waiting for credentials, no periodic check running.                *)
(***************************************************************************)

TelegramIds == { 1001, 1002 }

Idle == [state |-> "idle"]

InitBot ==
    /\ db = [id \in TelegramIds |-> None]
    /\ user_data = [id \in TelegramIds |-> FALSE]
    /\ cycle = Idle
    /\ log = <<>>
    /\ unsubscribed = {}

(***************************************************************************)
(* How a call ends.                                                        *)
(***************************************************************************)

Ret(v)   == [kind |-> "return", value |-> v]
Raise(e) == [kind |-> "raise", exc |-> e]
NoOutcome == [kind |-> "none"]
NoCall == [op |-> "none"]

(***************************************************************************)
(* The operations of LabCrawler.  Each takes the responses the portal      *)
(* gives to the requests the operation issues, in order, and yields how    *)
(* the call ends, the requests issued, the rows passed to the greenness    *)
(* test and the value of results_url afterwards.                           *)
(***************************************************************************)

Result(out, reqs, rows, ru) ==
    [outcome |-> out, requests |-> reqs, tested |-> rows, results_url |-> ru]

\* A handler that misses the HTTPError raised by raise_for_status.
except_ConnectionError(res, sentinel) ==
    IF res.outcome.kind = "raise" /\ res.outcome.exc \in { "ConnectionError", "Timeout" }
    THEN [res EXCEPT !.outcome = Ret(sentinel)]
    ELSE res

\* except requests.RequestException: return <sentinel>
except_RequestException(res, sentinel) ==
    IF res.outcome.kind = "raise" /\ res.outcome.exc \in RequestException
    THEN [res EXCEPT !.outcome = Ret(sentinel)]
    ELSE res

\* A first request that goes to the site's root when there is no results URL.
first_url_root(ru) == IF Truthy(ru) THEN ru ELSE base_url

\* The URL of the first request of check_results and get_pdf_link: the
\* results URL of the login, or the login page.
first_url(ru) == IF Truthy(ru) THEN ru ELSE login_url

\* The same filter without the lowering of the href.
is_results_href_as_written(x) ==
    /\ x # Null /\ x # ""
    /\ \/ Contains("resultado", x)
       \/ Contains("exame", x)
       \/ Contains("laudo", x)

\* The href filter of the results-page link: the attribute is present, not
\* empty, and holds one of the three words.
is_results_href(x) ==
    /\ x # Null /\ x # ""
    /\ \/ Contains("resultado", Lower(x))
       \/ Contains("exame", Lower(x))
       \/ Contains("laudo", Lower(x))

\* soup.find('a', href=...): the first anchor the filter accepts, or None.
RECURSIVE find_results_link(_)
find_results_link(anchors) ==
    IF anchors = <<>> THEN None
    ELSE IF is_results_href(anchors[1].href) THEN anchors[1]
    ELSE find_results_link(Tail(anchors))

\* row.find('th'), row.find('td')
has_th(row) == \E i \in 1..Len(row.cells) : row.cells[i].tag = "th"
has_td(row) == \E i \in 1..Len(row.cells) : row.cells[i].tag = "td"

\* The same condition without the test for a header cell.
is_skipped_no_th(row) ==
    \/ ~ has_td(row)
    \/ Contains("visualizar laudo", Lower(row_get_text(row)))
    \/ Contains("assinatura", Lower(row_get_text(row)))

\* The condition under which the loop over table_rows skips a row.
is_skipped(row) ==
    \/ has_th(row)
    \/ ~ has_td(row)
    \/ Contains("visualizar laudo", Lower(row_get_text(row)))
    \/ Contains("assinatura", Lower(row_get_text(row)))

\* results_rows: the rows of table_rows that are not skipped, in order.
RECURSIVE results_rows_of(_)
results_rows_of(table_rows) ==
    IF table_rows = <<>> THEN <<>>
    ELSE (IF is_skipped(table_rows[1]) THEN <<>> ELSE <<table_rows[1]>>)
         \o results_rows_of(Tail(table_rows))

\* The loop over results_rows: the rows passed to _is_row_green, up to and
\* including the first that is not green.
RECURSIVE rows_tested(_)
rows_tested(rows) ==
    IF rows = <<>> THEN <<>>
    ELSE IF ~ is_row_green(rows[1]) THEN <<rows[1]>>
    ELSE <<rows[1]>> \o rows_tested(Tail(rows))

\* all_green had the loop looked for one green row.
any_green_of(rows) == \E i \in 1..Len(rows) : is_row_green(rows[i])

\* all_green after the loop: no row passed to the test was found not green.
all_green_of(rows) ==
    LET t == rows_tested(rows) IN t = <<>> \/ is_row_green(t[Len(t)])

\* check_results from soup.find_all('tr') on.
evaluate_rows(soup, reqs, ru) ==
    LET table_rows   == soup.rows
        results_rows == results_rows_of(table_rows)
    IN  IF table_rows = <<>> THEN Result(Ret(FALSE), reqs, <<>>, ru)
        ELSE IF results_rows = <<>> THEN Result(Ret(FALSE), reqs, <<>>, ru)
        ELSE Result(Ret(all_green_of(results_rows)), reqs, rows_tested(results_rows), ru)

\* A check that remembers the page it discovered as the results URL.
check_results_try_storing(ru, rs) ==
    LET url1  == first_url(ru)
        r1    == rs[1]
        reqs1 == <<Request("GET", url1)>>
        soup  == BeautifulSoup(r1)
        results_link == find_results_link(soup.anchors)
        discovered == absolutize(results_link.href)
        reqs2 == reqs1 \o <<Request("GET", discovered)>>
        r2    == rs[2]
    IN  IF RaisedBy(r1) # Null THEN Result(Raise(RaisedBy(r1)), reqs1, <<>>, ru)
        ELSE IF (~ Truthy(ru) \/ Contains("entrar", Lower(response_text(r1))))
                /\ results_link # None
        THEN IF RaisedBy(r2) # Null THEN Result(Raise(RaisedBy(r2)), reqs2, <<>>, discovered)
             ELSE evaluate_rows(BeautifulSoup(r2), reqs2, discovered)
        ELSE evaluate_rows(soup, reqs1, ru)

\* The body of the try block of check_results.
check_results_try(ru, rs) ==
    LET url1  == first_url(ru)
        r1    == rs[1]
        reqs1 == <<Request("GET", url1)>>
        soup  == BeautifulSoup(r1)
        results_link == find_results_link(soup.anchors)
        reqs2 == reqs1 \o <<Request("GET", absolutize(results_link.href))>>
        r2    == rs[2]
    IN  IF RaisedBy(r1) # Null THEN Result(Raise(RaisedBy(r1)), reqs1, <<>>, ru)
        ELSE IF (~ Truthy(ru) \/ Contains("entrar", Lower(response_text(r1))))
                /\ results_link # None
        THEN IF RaisedBy(r2) # Null THEN Result(Raise(RaisedBy(r2)), reqs2, <<>>, ru)
             ELSE evaluate_rows(BeautifulSoup(r2), reqs2, ru)
        ELSE evaluate_rows(soup, reqs1, ru)

\* LabCrawler.check_results
check_results(ru, rs) == except_RequestException(check_results_try(ru, rs), FALSE)

\* A dict: dict[key] = value, and dict.get(key) (Null when absent).
dict_set(d, key, value) ==
    [x \in (DOMAIN d) \cup {key} |-> IF x = key THEN value ELSE d[x]]

dict_get(d, key) == IF key \in DOMAIN d THEN d[key] ELSE Null

\* Python's truth value of a str or None.
Falsy(v) == v = Null \/ v = ""

\* "Extract any hidden form fields"
RECURSIVE add_hidden_fields(_, _)
add_hidden_fields(login_data, inputs) ==
    LET name  == inputs[1].name
        value == IF inputs[1].value = Null THEN "" ELSE inputs[1].value
    IN  IF inputs = <<>> THEN login_data
        ELSE IF inputs[1].type = "hidden" /\ ~ Falsy(name)
             THEN add_hidden_fields(dict_set(login_data, name, value), Tail(inputs))
        ELSE add_hidden_fields(login_data, Tail(inputs))

\* "Check actual form field names"
RECURSIVE add_form_fields(_, _, _, _)
add_form_fields(login_data, inputs, username, password) ==
    LET field_name == IF inputs[1].name = Null THEN "" ELSE inputs[1].name
        field_type == IF inputs[1].type = Null THEN "" ELSE inputs[1].type
    IN  IF inputs = <<>> THEN login_data
        ELSE IF field_type \in { "text", "email", "number" }
                /\ Falsy(dict_get(login_data, field_name))
             THEN add_form_fields(dict_set(login_data, field_name, username),
                                  Tail(inputs), username, password)
        ELSE IF field_type = "password" /\ Falsy(dict_get(login_data, field_name))
             THEN add_form_fields(dict_set(login_data, field_name, password),
                                  Tail(inputs), username, password)
        ELSE add_form_fields(login_data, Tail(inputs), username, password)

\* The payload of the login POST.
build_login_data(form, username, password) ==
    LET login_data == [k \in { "username", "password", "identificacao", "senha" } |->
                          IF k \in { "username", "identificacao" } THEN username
                          ELSE password]
    IN  add_form_fields(add_hidden_fields(login_data, form.inputs),
                        form.inputs, username, password)

\* The URL the login form is submitted to.
form_action_url(form) ==
    LET action_url == IF form.action = Null THEN login_url ELSE form.action
    IN  IF StartsWith(action_url, "/") THEN base_url \o action_url
        ELSE IF ~ StartsWith(action_url, "http") THEN login_url
        ELSE action_url

success_indicators ==
    { "logout", "sair", "resultados", "results", "bem-vindo", "welcome",
      "dashboard", "painel", "exames", "laudos" }

\* "Check if login was successful"
login_succeeded(page_text) ==
    LET has_success_indicator ==
            \E indicator \in success_indicators : Contains(indicator, page_text)
        not_on_login ==
            ~ Contains("entrar", page_text) \/ ~ Contains("login", page_text)
    IN  has_success_indicator \/ not_on_login

PostRequest(url, data) == [method |-> "POST", url |-> url, data |-> data]

\* A login that submits the credentials although the page holds no form.
login_try_post_without_form(ru, username, password, rs) ==
    LET r1    == rs[1]
        reqs1 == <<Request("GET", login_url)>>
        login_response == rs[2]
        reqs2 == reqs1 \o <<PostRequest(login_url,
                     build_login_data(Form(Null, <<>>), username, password))>>
    IN  IF RaisedBy(r1) # Null THEN Result(Raise(RaisedBy(r1)), reqs1, <<>>, ru)
        ELSE IF RaisedBy(login_response) # Null
             THEN Result(Raise(RaisedBy(login_response)), reqs2, <<>>, ru)
        ELSE IF login_succeeded(Lower(response_text(login_response)))
             THEN Result(Ret(TRUE), reqs2, <<>>, login_response.url)
        ELSE Result(Ret(FALSE), reqs2, <<>>, ru)

\* The body of the try block of login.
login_try(ru, username, password, rs) ==
    LET r1    == rs[1]
        reqs1 == <<Request("GET", login_url)>>
        form  == BeautifulSoup(r1).form
        login_response == rs[2]
        reqs2 == reqs1 \o <<PostRequest(form_action_url(form),
                                        build_login_data(form, username, password))>>
    IN  IF RaisedBy(r1) # Null THEN Result(Raise(RaisedBy(r1)), reqs1, <<>>, ru)
        ELSE IF form = None THEN Result(Ret(FALSE), reqs1, <<>>, ru)
        ELSE IF RaisedBy(login_response) # Null
             THEN Result(Raise(RaisedBy(login_response)), reqs2, <<>>, ru)
        ELSE IF login_succeeded(Lower(response_text(login_response)))
             THEN Result(Ret(TRUE), reqs2, <<>>, login_response.url)
        ELSE Result(Ret(FALSE), reqs2, <<>>, ru)

\* LabCrawler.login
login(ru, username, password, rs) ==
    except_RequestException(login_try(ru, username, password, rs), FALSE)

\* The text filter of the first pass of get_pdf_link.
is_target_text(link) ==
    LET link_text == Lower(Strip(link.text))
    IN  \/ Contains("visualizar laudo", link_text)
        \/ Contains("baixar", link_text)
        \/ Contains("download", link_text)

\* soup.find_all('a', href=True): the anchors that have an href attribute.
RECURSIVE find_all_a_href(_)
find_all_a_href(anchors) ==
    IF anchors = <<>> THEN <<>>
    ELSE (IF anchors[1].href # Null THEN <<anchors[1]>> ELSE <<>>)
         \o find_all_a_href(Tail(anchors))

\* The first loop: the full URL of the first link whose text matches, or Null.
RECURSIVE first_pass(_)
first_pass(links) ==
    IF links = <<>> THEN Null
    ELSE IF is_target_text(links[1]) THEN absolutize(links[1].href)
    ELSE first_pass(Tail(links))

\* The second loop: the full URL of the first link to /get_laudo, or Null.
RECURSIVE second_pass(_)
second_pass(links) ==
    IF links = <<>> THEN Null
    ELSE IF Contains("/get_laudo", links[1].href) THEN absolutize(links[1].href)
    ELSE second_pass(Tail(links))

\* One loop that takes the first link matching either test, as the loop of
\* test_pdf_link_detection does.
RECURSIVE single_pass(_)
single_pass(links) ==
    IF links = <<>> THEN Null
    ELSE IF is_target_text(links[1]) \/ Contains("/get_laudo", links[1].href)
         THEN absolutize(links[1].href)
    ELSE single_pass(Tail(links))

\* The two loops of get_pdf_link over the links of the page.
find_pdf_link(links) ==
    IF first_pass(links) # Null THEN first_pass(links) ELSE second_pass(links)

\* The body of the try block of get_pdf_link.
get_pdf_link_try(ru, rs) ==
    LET url1 == first_url(ru)
        r1   == rs[1]
        reqs == <<Request("GET", url1)>>
        soup == BeautifulSoup(r1)
    IN  IF RaisedBy(r1) # Null THEN Result(Raise(RaisedBy(r1)), reqs, <<>>, ru)
        ELSE Result(Ret(find_pdf_link(find_all_a_href(soup.anchors))), reqs, <<>>, ru)

\* LabCrawler.get_pdf_link
get_pdf_link(ru, rs) == except_RequestException(get_pdf_link_try(ru, rs), Null)

(***************************************************************************)
(* base64.b64decode(data): the characters outside the alphabet are         *)
(* discarded, the data characters before the padding are decoded six bits  *)
(* each, and a missing padding raises binascii.Error.  Modelled for data   *)
(* that does not start with the padding character.  A decoded byte is the  *)
(* character with that code; a byte outside 32..126 is shown as "?".       *)
(***************************************************************************)

B64Alphabet == "ABCDEFGHIJKLMNOPQRSTUVWXYZabcdefghijklmnopqrstuvwxyz0123456789+/"

AsciiFrom32 == " !\"#$%&'()*+,-./0123456789:;<=>?@ABCDEFGHIJKLMNOPQRSTUVWXYZ[\\]^_"
AsciiFrom97 == "abcdefghijklmnopqrstuvwxyz{|}~"

Chr(b) ==
    IF b >= 32 /\ b <= 95 THEN CharAt(AsciiFrom32, b - 31)
    ELSE IF b >= 97 /\ b <= 126 THEN CharAt(AsciiFrom97, b - 96)
    ELSE "?"

B64Value(c) == (CHOOSE k \in 1..Len(B64Alphabet) : CharAt(B64Alphabet, k) = c) - 1

\* The characters of s that are of the alphabet or the padding character.
RECURSIVE B64Clean(_)
B64Clean(s) ==
    IF s = "" THEN ""
    ELSE (IF Contains(CharAt(s, 1), B64Alphabet) \/ CharAt(s, 1) = "="
          THEN CharAt(s, 1) ELSE "") \o B64Clean(Tail(s))

\* The length of the run of characters of s, from the start, that satisfy
\* "is the padding character" = pad.
RECURSIVE B64Run(_, _)
B64Run(s, pad) ==
    IF s # "" /\ ((CharAt(s, 1) = "=") = pad) THEN 1 + B64Run(Tail(s), pad) ELSE 0

\* The bytes of the data characters d, four characters to three bytes.
RECURSIVE B64Bytes(_)
B64Bytes(d) ==
    LET v(i) == B64Value(CharAt(d, i)) IN
    IF Len(d) < 2 THEN ""
    ELSE IF Len(d) = 2 THEN Chr(v(1) * 4 + v(2) \div 16)
    ELSE IF Len(d) = 3
         THEN Chr(v(1) * 4 + v(2) \div 16) \o Chr((v(2) % 16) * 16 + v(3) \div 4)
    ELSE Chr(v(1) * 4 + v(2) \div 16) \o Chr((v(2) % 16) * 16 + v(3) \div 4)
         \o Chr((v(3) % 4) * 64 + v(4)) \o B64Bytes(SubSeq(d, 5, Len(d)))

\* [ok |-> the call returned, bytes |-> what it returned]
b64decode(data) ==
    LET clean == B64Clean(data)
        n     == B64Run(clean, FALSE)
        pads  == B64Run(SubSeq(clean, n + 1, Len(clean)), TRUE)
        need  == CASE n % 4 = 0 -> 0 [] n % 4 = 2 -> 2 [] n % 4 = 3 -> 1 [] OTHER -> 99
    IN  IF pads >= need THEN [ok |-> TRUE, bytes |-> B64Bytes(SubSeq(clean, 1, n))]
        ELSE [ok |-> FALSE, bytes |-> ""]

\* A signature test that looks at the first byte only.
is_pdf_first_byte(content) == StartsWith(content, "%")

\* content.startswith(b'%PDF')
is_pdf(content) == StartsWith(content, "%PDF")

Payload(content, filename) == [content |-> content, filename |-> filename]

\* The loop over reversed(url_parts): the first part, from the end, that
\* holds a dot and does not start with '?', cut at its '?'; the filename
\* is left as it was when there is none.
RECURSIVE filename_from_parts(_, _)
filename_from_parts(url_parts, filename) ==
    LET part == url_parts[Len(url_parts)] IN
    IF url_parts = <<>> THEN filename
    ELSE IF Contains(".", part) /\ ~ StartsWith(part, "?") THEN Split(part, "?")[1]
    ELSE filename_from_parts(SubSeq(url_parts, 1, Len(url_parts) - 1), filename)

\* "Generate filename" to the end of download_pdf.
derive_filename(pdf_url, content_disposition) ==
    LET default == "lab_results.pdf"
        f1 == IF Contains("filename=", content_disposition)
              THEN StripChars(Split(content_disposition, "filename=")[2], "\"'")
              ELSE default
        f2 == IF f1 = "lab_results.pdf" /\ pdf_url # ""
              THEN filename_from_parts(Split(pdf_url, "/"), f1)
              ELSE f1
    IN  IF ~ EndsWith(Lower(f2), ".pdf") THEN f2 \o ".pdf" ELSE f2

\* The direct response: the final test of the signature and the filename.
direct_pdf(pdf_url, r1, reqs, ru) ==
    IF ~ is_pdf(response_content(r1)) THEN Result(Ret(None), reqs, <<>>, ru)
    ELSE Result(Ret(Payload(response_content(r1),
                            derive_filename(pdf_url, r1.disposition))),
                reqs, <<>>, ru)

\* The filter of the loop over the links of the HTML response.
is_pdf_href(href) == EndsWith(href, ".pdf") \/ Contains("pdf", Lower(href))

\* The loop over the links of the HTML response: each link to a pdf is
\* fetched with the next response of rs (from index k on); the first whose
\* content has the signature is returned, and None after the last.
RECURSIVE pdf_links_loop(_, _, _, _, _)
pdf_links_loop(links, rs, k, reqs, ru) ==
    LET href  == links[1].href
        reqs2 == reqs \o <<Request("GET", absolutize(href))>>
        pdf_response == rs[k]
    IN  IF links = <<>> THEN Result(Ret(None), reqs, <<>>, ru)
        ELSE IF ~ is_pdf_href(href) THEN pdf_links_loop(Tail(links), rs, k, reqs, ru)
        ELSE IF RaisedBy(pdf_response) # Null
             THEN Result(Raise(RaisedBy(pdf_response)), reqs2, <<>>, ru)
        ELSE IF is_pdf(response_content(pdf_response))
             THEN Result(Ret(Payload(response_content(pdf_response), "lab_results.pdf")),
                         reqs2, <<>>, ru)
        ELSE pdf_links_loop(Tail(links), rs, k + 1, reqs2, ru)

\* The HTML response from "Look for iframe with PDF source" on.
iframe_then_links(soup, rs, reqs, ru) ==
    LET iframe_src == absolutize(soup.iframe)
        reqs2 == reqs \o <<Request("GET", iframe_src)>>
        iframe_response == rs[2]
        links == find_all_a_href(soup.anchors)
    IN  IF soup.iframe # Null /\ soup.iframe # ""
        THEN IF RaisedBy(iframe_response) # Null
             THEN Result(Raise(RaisedBy(iframe_response)), reqs2, <<>>, ru)
             ELSE IF is_pdf(response_content(iframe_response))
             THEN Result(Ret(Payload(response_content(iframe_response), "lab_results.pdf")),
                         reqs2, <<>>, ru)
             ELSE pdf_links_loop(links, rs, 3, reqs2, ru)
        ELSE pdf_links_loop(links, rs, 2, reqs, ru)

\* The HTML response: the object with base64 data, then the rest.  A
\* decoding that raises is caught (except Exception: pass).
html_recovery(r1, rs, reqs, ru) ==
    LET soup == BeautifulSoup(r1)
        base64_data == soup.object
        decoded == b64decode(base64_data)
    IN  IF base64_data # Null /\ base64_data # "" /\ decoded.ok /\ is_pdf(decoded.bytes)
        THEN Result(Ret(Payload(decoded.bytes, "lab_results.pdf")), reqs, <<>>, ru)
        ELSE iframe_then_links(soup, rs, reqs, ru)

\* The body of the try block of download_pdf.
download_pdf_try(ru, pdf_url, rs) ==
    LET r1   == rs[1]
        reqs == <<Request("GET", pdf_url)>>
        content_type == Lower(r1.ctype)
    IN  IF RaisedBy(r1) # Null THEN Result(Raise(RaisedBy(r1)), reqs, <<>>, ru)
        ELSE IF Contains("pdf", content_type) THEN direct_pdf(pdf_url, r1, reqs, ru)
        ELSE IF Contains("html", content_type) THEN html_recovery(r1, rs, reqs, ru)
        ELSE IF ~ is_pdf(response_content(r1)) THEN Result(Ret(None), reqs, <<>>, ru)
        ELSE direct_pdf(pdf_url, r1, reqs, ru)

\* LabCrawler.download_pdf
download_pdf(ru, pdf_url, rs) ==
    except_RequestException(download_pdf_try(ru, pdf_url, rs), None)

(***************************************************************************)
(* Rows the greenness test is applied to: the attributes are drawn from    *)
(* values that hold each indicator of the code in upper, lower and mixed   *)
(* case, alone, and values that hold none or hold it in the wrong place.   *)
(***************************************************************************)

MaxCells == 2

StyleValues ==
    { "color:red", "background-color: Green", "BACKGROUND:#00FF00",
      "background:#0f0", "background:RGB(0,255,0)", "background: rgb(0, 255, 0)",
      "success" }

ClassValues ==
    { <<"odd">>, <<"row", "Green">>, <<"Success">>, <<"already">>,
      <<"Disponivel">>, <<"pronto">>, <<"suc", "cess">> }

BgcolorValues == { "#8FF08F", "LightGreen", "#00ff00", "#ffffff" }

TextValues ==
    { "Hemograma", "  Disponivel ", "PRONTO", "liberado em 02/01", "Concluido",
      "Green", "ready" }

\* A cell with at most one attribute set.
SampleCells ==
    { Cell("td", "", <<>>, ""), Cell("th", "color:green", <<>>, "") }
    \cup { Cell("td", st, <<>>, "") : st \in StyleValues }
    \cup { Cell("td", "", cl, "") : cl \in ClassValues }
    \cup { Cell("td", "", <<>>, tx) : tx \in TextValues }

\* The attributes of a row, at most one of them set.
SampleRowAttrs ==
    { Row("", <<>>, "", <<>>) }
    \cup { Row(st, <<>>, "", <<>>) : st \in StyleValues }
    \cup { Row("", cl, "", <<>>) : cl \in ClassValues }
    \cup { Row("", <<>>, bg, <<>>) : bg \in BgcolorValues }

SeqsUpTo(S, n) == UNION { [1..k -> S] : k \in 0..n }

\* A cell that is not green and one that is.
PlainCells == { Cell("td", "", <<>>, "Hemograma"), Cell("td", "", <<>>, "PRONTO") }

\* Rows whose own attributes vary over plain cells, and rows without
\* attributes of their own over every list of sample cells.
SampleRows ==
    { [a EXCEPT !.cells = cs] : a \in SampleRowAttrs, cs \in SeqsUpTo(PlainCells, MaxCells) }
    \cup { Row("", <<>>, "", cs) : cs \in SeqsUpTo(SampleCells, MaxCells) }

(***************************************************************************)
(* The greenness test applied to one row.                                  *)
(***************************************************************************)

InitRow ==
    /\ results_url = Null
    /\ pc = "idle"
    /\ call \in { [op |-> "_is_row_green", row |-> r] : r \in SampleRows }
    /\ outcome = NoOutcome
    /\ requests = <<>>
    /\ tested = <<>>
    /\ InitBot

RowGreen ==
    /\ pc = "idle"
    /\ call.op = "_is_row_green"
    /\ outcome' = Ret(is_row_green(call.row))
    /\ tested' = <<call.row>>
    /\ pc' = "returned"
    /\ UNCHANGED <<results_url, call, requests>>
    /\ UNCHANGED botvars

NextRow == RowGreen

SpecRow == InitRow /\ [][NextRow]_vars


(***************************************************************************)
(* The vocabulary of the greenness test as a table: pairs of an attribute  *)
(* and a token looked for, case-insensitively, in that attribute.          *)
(***************************************************************************)

RowIndicators ==
    { <<"style", "green">>, <<"style", "#00ff00">>, <<"style", "#0f0">>,
      <<"style", "rgb(0,255,0)">>, <<"style-stripped", "background-color:green">>,
      <<"class", "green">>, <<"class", "success">>, <<"class", "ready">>,
      <<"class", "disponivel">>,
      <<"bgcolor", "#8ff08f">>, <<"bgcolor", "green">> }

CellIndicators ==
    { <<"style", "green">>, <<"style", "#00ff00">>, <<"style", "#0f0">>,
      <<"style", "rgb(0,255,0)">>, <<"style-stripped", "background-color:green">>,
      <<"class", "green">>, <<"class", "success">>, <<"class", "ready">>,
      <<"text", "disponivel">>, <<"text", "pronto">>, <<"text", "liberado">>,
      <<"text", "concluido">> }

\* The table of the cells with the class token disponivel, which the
\* vocabulary names as a class token, looked for in a cell's class too.
ClaimedCellIndicators == CellIndicators \cup { <<"class", "disponivel">> }

AttrOf(el, attr) ==
    CASE attr = "style"          -> el.style
      [] attr = "style-stripped" -> RemoveChar(el.style, " ")
      [] attr = "class"          -> Join(el.class, " ")
      [] attr = "bgcolor"        -> el.bgcolor
      [] attr = "text"           -> el.text

Occurs(ind, el) == Contains(ind[2], Lower(AttrOf(el, ind[1])))

HasIndicator(row, rowTable, cellTable) ==
    \/ \E ind \in rowTable : Occurs(ind, row)
    \/ \E i \in 1..Len(row.cells) :
          /\ row.cells[i].tag = "td"
          /\ \E ind \in cellTable : Occurs(ind, row.cells[i])

RowTested == pc = "returned" /\ call.op = "_is_row_green"

MaxRows == 2
MaxAnchors == 2

HtmlType == "text/html; charset=utf-8"

Ok(url, body) == Response(200, HtmlType, "", url, body)

\* A request that raises: no connection, a timeout, and error statuses whose
\* body would otherwise count.
Failures ==
    { Failed("ConnectionError"), Failed("Timeout"),
      Response(404, HtmlType, "", login_url, EmptyHtml),
      Response(503, "application/pdf", "", login_url, Raw("%PDF-1.4 unavailable")) }

\* Table rows: green by the row's class, not green,
\* a header row with a green style, a row with a header and a data cell, a
\* signature row, an action row whose phrase spans two cells and whose cell
\* is green, a row without cells.
PageRows ==
    { Row("", <<"success">>, "", <<Cell("td", "", <<>>, "Hemograma")>>),
      Row("", <<>>, "", <<Cell("td", "", <<>>, "Colesterol"), Cell("td", "", <<>>, "Em analise")>>),
      Row("background:green", <<>>, "", <<Cell("th", "", <<>>, "Exame"), Cell("th", "", <<>>, "Status")>>),
      Row("", <<>>, "", <<Cell("th", "", <<>>, "TSH"), Cell("td", "", <<>>, "Coletado")>>),
      Row("", <<>>, "", <<Cell("td", "", <<>>, "Assinatura Digital")>>),
      Row("", <<>>, "", <<Cell("td", "", <<>>, "Visualizar "), Cell("td", "", <<>>, "LAUDO pronto")>>),
      Row("", <<"success">>, "#8ff08f", <<>>) }

\* What else the page of a results request holds: its text and its anchors.
PageDecors ==
    { [text |-> "Resultados de exames", anchors |-> <<>>],
      [text |-> "Entrar", anchors |-> <<>>],
      [text |-> "ENTRAR", anchors |-> <<Anchor("/home", "Inicio"),
                                        Anchor("/Resultados", "Meus resultados"),
                                        Anchor("exames.php", "Exames")>>],
      [text |-> "", anchors |-> <<Anchor(Null, "Laudos"), Anchor("", "Laudos"),
                                  Anchor("laudos/lista", "Laudos")>>] }

ResultsPages ==
    { Html(d.text, None, d.anchors, rows, Null, Null) :
          d \in PageDecors, rows \in SeqsUpTo(PageRows, MaxRows) }

\* A page that is served with a status that is neither 2xx nor an error
\* status, and names no redirect target that the session could follow.
MultipleChoices(body) == Response(300, HtmlType, "", login_url, body)

AllGreenPage ==
    Html("", None, <<>>,
         <<Row("", <<"success">>, "", <<Cell("td", "", <<>>, "Hemograma")>>)>>,
         Null, Null)

MixedPage ==
    Html("", None, <<Anchor("/get_laudo?id=7", "Baixar")>>,
         <<Row("", <<>>, "", <<Cell("td", "", <<>>, "Colesterol")>>),
           Row("", <<"success">>, "", <<Cell("td", "", <<>>, "Hemograma")>>)>>,
         Null, Null)

ResultsResponses ==
    { Ok(login_url, p) : p \in ResultsPages }
    \cup Failures \cup { MultipleChoices(AllGreenPage) }

\* The responses to the request of a discovered results page.
DiscoveredResponses ==
    { Ok(login_url, AllGreenPage), Ok(login_url, MixedPage), Ok(login_url, EmptyHtml),
      MultipleChoices(AllGreenPage), Failed("Timeout"),
      Response(404, HtmlType, "", login_url, AllGreenPage) }

\* Anchors of a results page: text and /get_laudo href, text only, text
\* with a relative href, /get_laudo href only, neither, text without href,
\* text with an absolute href.
LinkAnchors ==
    { Anchor("/get_laudo?id=123", "Visualizar Laudo"),
      Anchor("/download_pdf", "Baixar"),
      Anchor("docs/r.pdf", "  DOWNLOAD  "),
      Anchor("/get_laudo?id=9", "Laudo 9"),
      Anchor("/other_link", "Other Link"),
      Anchor(Null, "Baixar"),
      Anchor("https://cdn.lablaudo.com.br/x.pdf", "baixar laudo") }

LinkResponses ==
    { Ok(login_url, Html("", None, as, <<>>, Null, Null)) :
          as \in SeqsUpTo(LinkAnchors, MaxAnchors) }
    \cup Failures

Usernames == { "12345678", "87654321" }
Passwords == { "ABC123DEF" }

\* Login pages: without a form; with the portal's field names and a hidden
\* token; with other field names and no action; with a relative action;
\* with an absolute action.
LoginPages ==
    { Html("Em manutencao", None, <<>>, <<>>, Null, Null),
      Html("Acesso do paciente",
           Form("/acesso_paciente/entrar",
                <<Input("hidden", "csrf_token", "abc"),
                  Input("text", "identificacao", Null),
                  Input("password", "senha", Null)>>),
           <<>>, <<>>, Null, Null),
      Html("", Form(Null, <<Input("text", "cpf", ""), Input("password", "pwd", ""),
                            Input("hidden", Null, "x"), Input(Null, Null, Null)>>),
           <<>>, <<>>, Null, Null),
      Html("", Form("login.php", <<>>), <<>>, <<>>, Null, Null),
      Html("", Form("https://sso.lablaudo.com.br/auth",
                    <<Input("email", "username", "prefilled")>>),
           <<>>, <<>>, Null, Null) }

LoginPageResponses ==
    { Ok(login_url, p) : p \in LoginPages } \cup Failures

results_page_url == base_url \o "/painel"

\* What the submission of the form comes back with: a welcome page, the
\* login page again with an error, a page with one of the two login words,
\* an empty page.
LoginPostResponses ==
    { Ok(results_page_url, Html("Bem-vindo! Sair", None, <<>>, <<>>, Null, Null)),
      Ok(login_url, Html("Login invalido.", Form(Null, <<Input("submit", Null, "Entrar")>>),
                         <<>>, <<>>, Null, Null)),
      Ok(login_url, Html("Entrar", None, <<>>, <<>>, Null, Null)),
      Ok(results_page_url, EmptyHtml),
      MultipleChoices(EmptyHtml) }
    \cup Failures

\* The URLs download_pdf is called with.
PdfUrls ==
    { base_url \o "/get_laudo?id=123",
      base_url \o "/download?x=1",
      base_url \o "/docs/report.pdf",
      base_url \o "/v1.2/download",
      base_url \o "/laudo.php?f=a.b" }

ContentTypes == { "application/pdf", "Application/PDF", "application/octet-stream", "" }

Dispositions ==
    { "", "inline", "attachment; filename=\"report.pdf\"",
      "attachment; filename='exame'", "attachment; filename=lab_results.pdf" }

PdfBody == Raw("%PDF-1.4 laudo")
NotPdfBody == Raw("<html><body>Not a PDF</body></html>")
PostScriptBody == Raw("%!PS-Adobe-3.0")

\* HTML bodies of a download: nothing embedded; an object with the base64
\* of a PDF, of a PDF with white space, of HTML, with a missing padding,
\* without data; an iframe; links to a pdf; an object that is no PDF before
\* an iframe and a link.
PdfB64 == "JVBERi0xLjQ="

DownloadPages ==
    { EmptyHtml,
      Html("", None, <<>>, <<>>, PdfB64, Null),
      Html("", None, <<>>, <<>>, "JVBE Ri0x\nLjQ=", "/frame"),
      Html("", None, <<>>, <<>>, "PGh0bWw+", Null),
      Html("", None, <<>>, <<>>, "JVBERi0xLjQ", "viewer/frame"),
      Html("", None, <<>>, <<>>, "", Null),
      Html("", None, <<>>, <<>>, Null, "/get_laudo/frame?id=1"),
      Html("", None, <<Anchor("/a.PDF", "a"), Anchor("/other", "b"),
                       Anchor("files/b.pdf", "c")>>, <<>>, Null, ""),
      Html("", None, <<Anchor(Null, "x.pdf"), Anchor("https://cdn.lablaudo.com.br/pdf/1", "d")>>,
           <<>>, "PGh0bWw+", "/frame") }

\* Responses that are answered without a further request.
DirectResponses ==
    { Response(200, ct, cd, login_url, b) :
          ct \in ContentTypes, cd \in Dispositions,
          b \in { PdfBody, NotPdfBody, PostScriptBody } }
    \cup { Response(200, "application/pdf", "", login_url, EmptyHtml),
           Response(200, "text/html", "", login_url, PdfBody),
           Response(300, "application/pdf", "", login_url, PdfBody) }
    \cup Failures

\* Responses declared as HTML, which can lead to further requests.
HtmlResponses == { Ok(login_url, p) : p \in DownloadPages }

\* The responses to the requests of an iframe source and of a pdf link.
SecondaryResponses ==
    { Response(200, "application/pdf", "", login_url, PdfBody),
      Response(200, "application/pdf", "", login_url, PostScriptBody),
      Failed("Timeout"),
      Response(500, "application/pdf", "", login_url, PdfBody) }

(***************************************************************************)
(* One client: the operations are called in any order, each with any       *)
(* responses of the portal.                                                *)
(***************************************************************************)

Init ==
    /\ results_url = Null
    /\ pc = "idle"
    /\ call = NoCall
    /\ outcome = NoOutcome
    /\ requests = <<>>
    /\ tested = <<>>
    /\ InitBot

\* The call ends: what it leaves behind.  Of the responses, those of the
\* requests that were issued are kept.
Returns(op, args, rs, res) ==
    /\ pc' = "returned"
    /\ call' = [op |-> op, args |-> args, results_url |-> results_url,
                responses |-> SubSeq(rs, 1, Len(res.requests))]
    /\ outcome' = res.outcome
    /\ requests' = res.requests
    /\ tested' = res.tested
    /\ results_url' = res.results_url
    /\ UNCHANGED botvars

Login ==
    /\ pc = "idle"
    /\ \E username \in Usernames, password \in Passwords,
          r1 \in LoginPageResponses, r2 \in LoginPostResponses :
          Returns("login", <<username, password>>, <<r1, r2>>,
                  login(results_url, username, password, <<r1, r2>>))

CheckResults ==
    /\ pc = "idle"
    /\ \E r1 \in ResultsResponses, r2 \in DiscoveredResponses :
          Returns("check_results", <<>>, <<r1, r2>>,
                  check_results(results_url, <<r1, r2>>))

GetPdfLink ==
    /\ pc = "idle"
    /\ \E r1 \in LinkResponses :
          Returns("get_pdf_link", <<>>, <<r1>>, get_pdf_link(results_url, <<r1>>))

DownloadPdf ==
    /\ pc = "idle"
    /\ \E pdf_url \in PdfUrls :
          \E rs \in { <<r1>> : r1 \in DirectResponses }
                   \cup { <<r1>> \o more : r1 \in HtmlResponses,
                                           more \in [1..3 -> SecondaryResponses] } :
              Returns("download_pdf", <<pdf_url>>, rs,
                      download_pdf(results_url, pdf_url, rs))

\* The caller takes the result; the client is ready for the next call.
Return ==
    /\ pc = "returned"
    /\ pc' = "idle"
    /\ call' = NoCall
    /\ outcome' = NoOutcome
    /\ requests' = <<>>
    /\ tested' = <<>>
    /\ UNCHANGED results_url
    /\ UNCHANGED botvars

Next == Login \/ CheckResults \/ GetPdfLink \/ DownloadPdf \/ Return

Spec == Init /\ [][Next]_vars


(***************************************************************************)
(* Properties of one client.                                               *)
(***************************************************************************)

Called(op) == pc = "returned" /\ call.op = op

\* The call was made on a client on which no login has succeeded.
Unauthenticated == call.results_url = Null

\* No request of the call raised.
FetchesSucceeded ==
    \A k \in 1..Len(call.responses) : RaisedBy(call.responses[k]) = Null

\* The document of the last response of the call.
LastPage == BeautifulSoup(call.responses[Len(call.responses)])

\* A row that is excluded by name: it holds a header cell, or its text
\* holds one of the two phrases.
Excluded(row) ==
    \/ \E i \in 1..Len(row.cells) : row.cells[i].tag = "th"
    \/ \E ph \in { "assinatura", "visualizar laudo" } :
          Contains(ph, Lower(row_get_text(row)))

\* A qualifying row: not excluded, and with a data cell.
Qualifies(row) ==
    /\ ~ Excluded(row)
    /\ \E i \in 1..Len(row.cells) : row.cells[i].tag = "td"

QualifyingIndexes(page) == { i \in 1..Len(page.rows) : Qualifies(page.rows[i]) }

\* The set of qualifying rows is not empty and every qualifying row is green.
PageReady(page) ==
    /\ QualifyingIndexes(page) # {}
    /\ \A i \in QualifyingIndexes(page) : is_row_green(page.rows[i])

\* The page without the rows excluded by name.
RECURSIVE WithoutExcluded(_)
WithoutExcluded(rows) ==
    IF rows = <<>> THEN <<>>
    ELSE (IF Excluded(rows[1]) THEN <<>> ELSE <<rows[1]>>) \o WithoutExcluded(Tail(rows))

\* The link get_pdf_link is to return for a page: of the anchors with an
\* href, the first whose text holds a phrase, else the first whose href
\* holds /get_laudo, else none.
PhraseMatched(a) ==
    /\ a.href # Null
    /\ \E ph \in { "visualizar laudo", "baixar", "download" } : Contains(ph, Lower(a.text))

GetLaudoMatched(a) == a.href # Null /\ Contains("/get_laudo", a.href)

Least(S) == CHOOSE i \in S : \A j \in S : i <= j

ExpectedLink(page) ==
    LET P == { i \in 1..Len(page.anchors) : PhraseMatched(page.anchors[i]) }
        G == { i \in 1..Len(page.anchors) : GetLaudoMatched(page.anchors[i]) }
    IN  IF P # {} THEN absolutize(page.anchors[Least(P)].href)
        ELSE IF G # {} THEN absolutize(page.anchors[Least(G)].href)
        ELSE Null

\* C1 (as stated): on a client on which no login has succeeded,
\* check_results and get_pdf_link end with an explicit failure, never with
\* one of their ordinary values.
C1_UnauthenticatedFailsExplicitly ==
    (Called("check_results") \/ Called("get_pdf_link")) /\ Unauthenticated
        => outcome.kind = "raise"

\* C1 (amended): on such a client both operations request the login page in
\* place of the results page and return their ordinary values: check_results
\* is true exactly when the page it ends up with (the login page, or the
\* page discovered from its links) is ready, and get_pdf_link returns the
\* link of the login page.
C1_UnauthenticatedUsesLoginPage ==
    (Called("check_results") \/ Called("get_pdf_link")) /\ Unauthenticated
        => /\ outcome.kind = "return"
           /\ requests[1] = Request("GET", login_url)
           /\ Called("check_results")
                => outcome.value = (FetchesSucceeded /\ PageReady(LastPage))
           /\ Called("get_pdf_link")
                => outcome.value = IF FetchesSucceeded THEN ExpectedLink(LastPage)
                                   ELSE Null

\* check_results returns true on a client that never logged in.
C1_Witness ==
    Called("check_results") /\ Unauthenticated /\ outcome = Ret(TRUE)

\* C2: when every fetch of check_results succeeds, it returns true exactly
\* when the page has a qualifying row and every qualifying row is green.
C2_ReadyIffAllQualifyingGreen ==
    Called("check_results") /\ FetchesSucceeded
        => outcome = Ret(PageReady(LastPage))

\* Two qualifying rows, both green: check_results returns true.
C2_Witness ==
    /\ Called("check_results") /\ FetchesSucceeded
    /\ Cardinality(QualifyingIndexes(LastPage)) >= 2
    /\ outcome = Ret(TRUE)

C5_PhraseFirst ==
    Called("get_pdf_link") /\ FetchesSucceeded
        => outcome = Ret(ExpectedLink(LastPage))

\* A /get_laudo anchor without a phrase precedes an anchor with a phrase:
\* the link of the second is returned.
C5_Witness ==
    /\ Called("get_pdf_link") /\ FetchesSucceeded
    /\ Len(LastPage.anchors) = 2
    /\ GetLaudoMatched(LastPage.anchors[1]) /\ ~ PhraseMatched(LastPage.anchors[1])
    /\ PhraseMatched(LastPage.anchors[2])
    /\ outcome = Ret(absolutize(LastPage.anchors[2].href))

\* download_pdf returned a payload that the response served directly: the
\* declared type is PDF, or is not HTML.
DirectAccepted ==
    /\ Called("download_pdf")
    /\ outcome.kind = "return" /\ outcome.value # None
    /\ LET ct == Lower(call.responses[1].ctype)
       IN  Contains("pdf", ct) \/ ~ Contains("html", ct)

\* The value of the filename= parameter of a Content-Disposition header,
\* without the quotes around it.
HeaderFilename(cd) ==
    LET k == FindFrom(cd, "filename=", 1)
    IN  StripChars(SubSeq(cd, k + Len("filename="), Len(cd)), "\"'")

WithPdfSuffix(f) == IF EndsWith(Lower(f), ".pdf") THEN f ELSE f \o ".pdf"

\* The last path segment of a URL, without its query string.
LastSegment(url) ==
    LET segs == Split(url, "/") IN Split(segs[Len(segs)], "?")[1]

\* C6: when the header gives a filename, the filename returned with a
\* directly served payload is that value (with .pdf appended if missing),
\* whatever the value and whatever the URL.
C6_HeaderFilenameWins ==
    DirectAccepted /\ Contains("filename=", call.responses[1].disposition)
        => outcome.value.filename
             = WithPdfSuffix(HeaderFilename(call.responses[1].disposition))

\* C7: when the header gives no filename, only the last path segment of the
\* URL can supply the filename, and lab_results.pdf is returned when that
\* segment holds no dot.
C7_FallbackFilename ==
    DirectAccepted /\ ~ Contains("filename=", call.responses[1].disposition)
        => LET last == LastSegment(call.args[1])
           IN  outcome.value.filename
                 = IF Contains(".", last) THEN WithPdfSuffix(last) ELSE "lab_results.pdf"

\* The four bytes of the signature, one by one.
HasSignature(content) ==
    /\ Len(content) >= 4
    /\ CharAt(content, 1) = "%" /\ CharAt(content, 2) = "P"
    /\ CharAt(content, 3) = "D" /\ CharAt(content, 4) = "F"

\* C8: whatever download_pdf returns other than null starts with %PDF, and
\* a directly served body that does not start with %PDF yields null.
C8_PayloadHasSignature ==
    Called("download_pdf")
        => /\ outcome.kind = "return" /\ outcome.value # None
                => HasSignature(outcome.value.content)
           /\ LET r1 == call.responses[1]
                  ct == Lower(r1.ctype)
              IN  /\ RaisedBy(r1) = Null
                  /\ Contains("pdf", ct) \/ ~ Contains("html", ct)
                  /\ ~ HasSignature(response_content(r1))
                  => outcome = Ret(None)

\* The iframe's content has no signature although it starts with '%'; the
\* content of the link that is fetched next has it and is returned.
C8_Witness ==
    /\ Called("download_pdf")
    /\ Len(requests) = 3
    /\ CharAt(response_content(call.responses[2]), 1) = "%"
    /\ outcome.kind = "return" /\ outcome.value # None
    /\ outcome.value.content = response_content(call.responses[3])

ClientOps == { "login", "check_results", "get_pdf_link", "download_pdf" }

\* The negative sentinel of each operation.
Sentinel(op) ==
    CASE op = "login"         -> Ret(FALSE)
      [] op = "check_results" -> Ret(FALSE)
      [] op = "get_pdf_link"  -> Ret(Null)
      [] op = "download_pdf"  -> Ret(None)

\* C10 (as stated): every operation returns, and a request that fails by a
\* connection error, a timeout or a status that is not 2xx makes it return
\* its negative sentinel.
C10_NonOkStatusGivesSentinel ==
    pc = "returned" /\ call.op \in ClientOps
        => /\ outcome.kind = "return"
           /\ (\E k \in 1..Len(call.responses) :
                  \/ call.responses[k].err # "none"
                  \/ ~ (call.responses[k].status >= 200 /\ call.responses[k].status <= 299))
                => outcome = Sentinel(call.op)

\* C10 (amended): every operation returns, and a request that fails by a
\* connection error, a timeout or a 4xx or 5xx status makes it return its
\* negative sentinel.
C10_FailureGivesSentinel ==
    pc = "returned" /\ call.op \in ClientOps
        => /\ outcome.kind = "return"
           /\ (\E k \in 1..Len(call.responses) :
                  \/ call.responses[k].err # "none"
                  \/ (call.responses[k].status >= 400 /\ call.responses[k].status <= 599))
                => outcome = Sentinel(call.op)

\* The request of a pdf link, the third of a download, is answered with an
\* error status: download_pdf returns null.
C10_Witness ==
    /\ Called("download_pdf")
    /\ Len(requests) = 3
    /\ call.responses[3].err = "none" /\ call.responses[3].status >= 400
    /\ outcome = Ret(None)

(***************************************************************************)
(* The credential store (database.py).  db maps a telegram_id to its row   *)
(* of the users table, or to None.                                         *)
(***************************************************************************)

\* INSERT OR IGNORE: the row of a user who is already stored is kept.
add_user_unless_stored(d, telegram_id, username, password) ==
    IF d[telegram_id] # None THEN d
    ELSE [d EXCEPT ![telegram_id] =
             [username |-> username, password |-> password, active |-> 1,
              last_status |-> Null]]

\* INSERT OR REPLACE INTO users (telegram_id, username, password, active)
add_user(d, telegram_id, username, password) ==
    [d EXCEPT ![telegram_id] =
        [username |-> username, password |-> password, active |-> 1,
         last_status |-> Null]]

\* DELETE FROM users WHERE telegram_id = ?, and whether a row was deleted.
remove_user(d, telegram_id) ==
    [db |-> [d EXCEPT ![telegram_id] = None], value |-> d[telegram_id] # None]

\* SELECT username, password FROM users WHERE telegram_id = ? AND active = 1
get_user(d, telegram_id) ==
    IF d[telegram_id] # None /\ d[telegram_id].active = 1
    THEN [username |-> d[telegram_id].username, password |-> d[telegram_id].password]
    ELSE None

RECURSIVE Ascending(_)
Ascending(ids) ==
    IF ids = {} THEN <<>>
    ELSE LET least == CHOOSE x \in ids : \A y \in ids : x <= y
         IN  <<least>> \o Ascending(ids \ {least})

\* SELECT telegram_id, username, password FROM users WHERE active = 1
get_all_active_users(d) ==
    LET ids == Ascending({ id \in DOMAIN d : d[id] # None /\ d[id].active = 1 })
    IN  [i \in DOMAIN ids |->
            [telegram_id |-> ids[i], username |-> d[ids[i]].username,
             password |-> d[ids[i]].password]]

\* A status update that inserts the row it does not find.
update_user_status_or_insert(d, telegram_id, status) ==
    IF d[telegram_id] = None
    THEN [d EXCEPT ![telegram_id] =
             [username |-> "", password |-> "", active |-> 1, last_status |-> status]]
    ELSE [d EXCEPT ![telegram_id].last_status = status]

\* UPDATE users SET last_check = ..., last_status = ? WHERE telegram_id = ?
update_user_status(d, telegram_id, status) ==
    IF d[telegram_id] = None THEN d
    ELSE [d EXCEPT ![telegram_id].last_status = status]

\* UPDATE users SET active = 0 WHERE telegram_id = ?
deactivate_user(d, telegram_id) ==
    IF d[telegram_id] = None THEN d
    ELSE [d EXCEPT ![telegram_id].active = 0]

(***************************************************************************)
(* What a handler does, as the events of its log: the handler that runs,   *)
(* the construction of a client, a call on a client, a message or a        *)
(* document sent to a chat.                                                *)
(***************************************************************************)

Handler(name, telegram_id) == [ev |-> "handler", name |-> name, telegram_id |-> telegram_id]

LabCrawler(client) == [ev |-> "LabCrawler", client |-> client]

CallEvent(client, op, args, rs, res) ==
    [ev |-> "call", client |-> client, op |-> op, args |-> args,
     responses |-> SubSeq(rs, 1, Len(res.requests)),
     requests |-> res.requests, outcome |-> res.outcome]

Sent(chat_id, text) == [ev |-> "send", chat_id |-> chat_id, text |-> text, document |-> None]

SentDocument(chat_id, pdf_data) ==
    [ev |-> "send", chat_id |-> chat_id, text |-> "Your lab results are attached.",
     document |-> pdf_data]

\* The text message that handle_message was called with.
Received(chat_id, text) == [ev |-> "update", chat_id |-> chat_id, text |-> text]

\* What a handler did, after the message it was called with.
OnUpdate(chat_id, text, h) ==
    [h EXCEPT !.events = <<Received(chat_id, text)>> \o h.events]

\* The await of a send ends: the send returned, or it raised.
Awaited(chat_id, sending, returned) ==
    [ev |-> "awaited", chat_id |-> chat_id, sending |-> sending, returned |-> returned]

\* The events of one client, as those of the client numbered c.
OnClient(events, c) == [i \in DOMAIN events |-> [events[i] EXCEPT !.client = c]]

\* One client, constructed once, that serves every user of a handler.
SharedClient(events) == 1

\* The number of the next client that a handler constructs.
NextClient(events) ==
    Cardinality({ i \in DOMAIN events : events[i].ev = "LabCrawler" }) + 1

(***************************************************************************)
(* What the portal answers to the requests of one client: the responses to *)
(* the requests of login, of check_results, of get_pdf_link and of         *)
(* download_pdf.                                                           *)
(***************************************************************************)

Script(rs_login, rs_check, rs_link, rs_download) ==
    [login |-> rs_login, check |-> rs_check, link |-> rs_link, download |-> rs_download]

NoFormPage == Ok(login_url, Html("Em manutencao", None, <<>>, <<>>, Null, Null))

FormPage ==
    Ok(login_url,
       Html("Acesso do paciente",
            Form("/acesso_paciente/entrar",
                 <<Input("text", "identificacao", Null),
                   Input("password", "senha", Null)>>),
            <<>>, <<>>, Null, Null))

Welcome == Ok(results_page_url, Html("Bem-vindo! Sair", None, <<>>, <<>>, Null, Null))

Rejected ==
    Ok(login_url, Html("Login invalido.", Form(Null, <<Input("submit", Null, "Entrar")>>),
                       <<>>, <<>>, Null, Null))

LinkPage ==
    Ok(results_page_url,
       Html("", None, <<Anchor("/get_laudo?id=123", "Visualizar Laudo")>>, <<>>, Null, Null))

PdfResponse ==
    Response(200, "application/pdf", "attachment; filename=\"report.pdf\"",
             base_url \o "/get_laudo?id=123", PdfBody)

Ready == <<Ok(results_page_url, AllGreenPage), Ok(results_page_url, AllGreenPage)>>

\* No form on the login page; the form submitted and rejected; the login
\* page unreachable; results pending; results page unavailable; results
\* ready without a link; with a link to a page that holds no PDF; with a
\* link to a PDF.  Where a flow stops early, the portal would have answered
\* the later requests with ready results and a PDF.
PortalScripts ==
    { Script(<<NoFormPage, Welcome>>, Ready, <<LinkPage>>, <<PdfResponse>>),
      Script(<<FormPage, Rejected>>, Ready, <<LinkPage>>, <<PdfResponse>>),
      Script(<<Failed("ConnectionError"), Welcome>>, Ready, <<LinkPage>>, <<PdfResponse>>),
      Script(<<FormPage, Welcome>>,
             <<Ok(results_page_url, MixedPage), Ok(results_page_url, MixedPage)>>,
             <<LinkPage>>, <<PdfResponse>>),
      Script(<<FormPage, Welcome>>,
             <<Response(503, HtmlType, "", results_page_url, AllGreenPage),
               Ok(results_page_url, AllGreenPage)>>,
             <<LinkPage>>, <<PdfResponse>>),
      Script(<<FormPage, Welcome>>, Ready, <<Ok(results_page_url, AllGreenPage)>>,
             <<PdfResponse>>),
      Script(<<FormPage, Welcome>>, Ready, <<LinkPage>>,
             <<Ok(base_url \o "/get_laudo?id=123", EmptyHtml)>>),
      Script(<<FormPage, Welcome>>, Ready, <<LinkPage>>, <<PdfResponse>>) }

\* Which of the replies of handle_message return: all; the first raises
\* and the one of the except clause returns, or raises as well; the one
\* after the login raises, likewise.
ReplyOutcomes ==
    { <<TRUE, TRUE, TRUE>>, <<FALSE, TRUE, TRUE>>, <<FALSE, TRUE, FALSE>>,
      <<TRUE, FALSE, TRUE>>, <<TRUE, FALSE, FALSE>> }

\* What the users type after /add.
MessageTexts ==
    { "12345678 ABC123DEF", "  87654321 \t ABC123DEF\n", "12345678", "um dois tres" }

(***************************************************************************)
(* The handlers of LabBot (bot.py).                                        *)
(***************************************************************************)

\* str.split() without a separator: the runs of characters that are not
\* white space.
RECURSIVE SplitWhitespace(_)
SplitWhitespace(s) ==
    LET t == LStripChars(s, " \n\t") IN
    IF t = "" THEN <<>>
    ELSE LET stops == { i \in 1..Len(t) : CharAt(t, i) \in { " ", "\n", "\t" } }
             k     == IF stops = {} THEN Len(t) + 1
                      ELSE CHOOSE i \in stops : \A j \in stops : i <= j
         IN  <<SubSeq(t, 1, k - 1)>> \o SplitWhitespace(SubSeq(t, k, Len(t)))

\* body(value), with the value computed once.
With(value, body(_)) == CHOOSE y \in { body(x) : x \in { value } } : TRUE

Flow(events, stage, pdf_url, pdf_data) ==
    [events |-> events, stage |-> stage, pdf_url |-> pdf_url, pdf_data |-> pdf_data]

\* The calls that follow a get_pdf_link that returned pdf_url.
calls_with_link(pdf_url, ru, script, events) ==
    With(download_pdf(ru, pdf_url, script.download), LAMBDA d :
    With(events \o <<CallEvent(0, "download_pdf", <<pdf_url>>, script.download, d)>>,
         LAMBDA e4 :
        IF d.outcome.kind = "raise" THEN Flow(e4, "error", pdf_url, None)
        ELSE IF d.outcome.value = None THEN Flow(e4, "ready_no_pdf", pdf_url, None)
        ELSE Flow(e4, "document", pdf_url, d.outcome.value)))

\* The calls that follow a check_results that returned true.
calls_when_ready(ru, script, events) ==
    With(get_pdf_link(ru, script.link), LAMBDA p :
    With(events \o <<CallEvent(0, "get_pdf_link", <<>>, script.link, p)>>, LAMBDA e3 :
        IF p.outcome.kind = "raise" THEN Flow(e3, "error", Null, None)
        ELSE IF ~ Truthy(p.outcome.value) THEN Flow(e3, "ready", Null, None)
        ELSE calls_with_link(p.outcome.value, p.results_url, script, e3)))

\* The calls after a login, going on to get_pdf_link whatever check_results
\* returned.
calls_after_login_unconditional(ru, script, events) ==
    With(check_results(ru, script.check), LAMBDA r :
    With(events \o <<CallEvent(0, "check_results", <<>>, script.check, r)>>, LAMBDA e2 :
        IF r.outcome.kind = "raise" THEN Flow(e2, "error", Null, None)
        ELSE calls_when_ready(r.results_url, script, e2)))

\* The calls that follow a login that returned true.
calls_after_login(ru, script, events) ==
    With(check_results(ru, script.check), LAMBDA r :
    With(events \o <<CallEvent(0, "check_results", <<>>, script.check, r)>>, LAMBDA e2 :
        IF r.outcome.kind = "raise" THEN Flow(e2, "error", Null, None)
        ELSE IF ~ r.outcome.value THEN Flow(e2, "pending", Null, None)
        ELSE calls_when_ready(r.results_url, script, e2)))

\* The calls of check_now and of check_all_users on the client they
\* construct for one user, and where the nested conditions lead: an
\* exception, a failed login, pending results, ready results without a
\* link, with a link but no PDF, with a PDF.
client_calls(username, password, script) ==
    With(login(Null, username, password, script.login), LAMBDA l :
    With(<<LabCrawler(0),
           CallEvent(0, "login", <<username, password>>, script.login, l)>>, LAMBDA e1 :
        IF l.outcome.kind = "raise" THEN Flow(e1, "error", Null, None)
        ELSE IF ~ l.outcome.value THEN Flow(e1, "login_failed", Null, None)
        ELSE calls_after_login(l.results_url, script, e1)))

\* The flows of every user with every answer of the portal.
Flows ==
    [username \in Usernames, password \in Passwords, script \in PortalScripts |->
        client_calls(username, password, script)]

Handled(d, ud, events) == [db |-> d, user_data |-> ud, events |-> events]

\* LabBot.add_credentials
add_credentials(d, ud, telegram_id) ==
    Handled(d, [ud EXCEPT ![telegram_id] = TRUE],
            <<Sent(telegram_id, "Please send your credentials in this format")>>)

\* A reply of handle_message, awaited: it returns, or it raises.
Replied(telegram_id, text, returned) ==
    IF returned THEN <<Sent(telegram_id, text)>>
    ELSE <<Sent(telegram_id, text), Awaited(telegram_id, "message", FALSE)>>

\* The except clause of handle_message: the reply, and the flag cleared
\* after it; a reply that raises here ends the handler with the exception.
except_Exception(d, ud, telegram_id, events, returned) ==
    Handled(d, IF returned THEN [ud EXCEPT ![telegram_id] = FALSE] ELSE ud,
            events \o Replied(telegram_id, "Error processing credentials.", returned))

\* handle_message from the login on.  replies[2]: the reply that tells the
\* result of the login returns.
handle_message_login(d, ud, telegram_id, username, password, rs, events, replies) ==
    With(login(Null, username, password, rs), LAMBDA l :
    With(events \o <<LabCrawler(1),
                     CallEvent(1, "login", <<username, password>>, rs, l)>>, LAMBDA e :
        IF l.outcome.kind = "raise"
        THEN except_Exception(d, ud, telegram_id, e, replies[3])
        ELSE
        LET saved == IF l.outcome.value THEN add_user(d, telegram_id, username, password)
                     ELSE d
            told  == e \o Replied(telegram_id,
                                  IF l.outcome.value THEN "Credentials saved successfully!"
                                  ELSE "Login failed.", replies[2])
        IN  IF replies[2] THEN Handled(saved, [ud EXCEPT ![telegram_id] = FALSE], told)
            ELSE except_Exception(saved, ud, telegram_id, told, replies[3])))

\* LabBot.handle_message.  replies: whether the first reply, the reply
\* after the login and the reply of the except clause return; a reply that
\* does not return raises.
handle_message(d, ud, telegram_id, text, rs, replies) ==
    IF ~ ud[telegram_id]
    THEN Handled(d, ud, Replied(telegram_id, "Use /help to see available commands.",
                                replies[1]))
    ELSE
    LET parts == SplitWhitespace(Strip(text)) IN
    IF Len(parts) # 2
    THEN IF replies[1]
         THEN Handled(d, ud, <<Sent(telegram_id, "Please send your credentials in this format")>>)
         ELSE except_Exception(d, ud, telegram_id,
                               Replied(telegram_id,
                                       "Please send your credentials in this format", FALSE),
                               replies[3])
    ELSE IF ~ replies[1]
    THEN except_Exception(d, ud, telegram_id,
                          Replied(telegram_id, "Testing your credentials...", FALSE),
                          replies[3])
    ELSE handle_message_login(d, ud, telegram_id, parts[1], parts[2], rs,
                              <<Sent(telegram_id, "Testing your credentials...")>>, replies)

\* LabBot.remove_credentials
remove_credentials(d, ud, telegram_id) ==
    LET removed == remove_user(d, telegram_id) IN
    IF removed.value
    THEN Handled(removed.db, ud,
                 <<Sent(telegram_id, "Your credentials have been removed.")>>)
    ELSE Handled(removed.db, ud,
                 <<Sent(telegram_id, "No credentials found to remove.")>>)

\* LabBot.check_now.  document_sent: reply_document returns; otherwise it
\* raises and the handler ends in its except clause.
check_now(d, ud, telegram_id, script, document_sent) ==
    LET credentials == get_user(d, telegram_id) IN
    IF credentials = None
    THEN Handled(d, ud, <<Sent(telegram_id, "No credentials found.")>>)
    ELSE
    With(Flows[credentials.username, credentials.password, script], LAMBDA flow :
    With(<<Sent(telegram_id, "Checking your results...")>> \o OnClient(flow.events, 1),
         LAMBDA events :
    LET failed == <<Sent(telegram_id, "Error checking results.")>>
    IN  CASE flow.stage = "error" -> Handled(d, ud, events \o failed)
          [] flow.stage = "login_failed" ->
                Handled(update_user_status(d, telegram_id, "login_failed"), ud,
                        events \o <<Sent(telegram_id, "Failed to login.")>>)
          [] flow.stage = "pending" ->
                Handled(update_user_status(d, telegram_id, "results_pending"), ud,
                        events \o <<Sent(telegram_id, "Your results are not ready yet.")>>)
          [] flow.stage = "ready" ->
                Handled(update_user_status(d, telegram_id, "results_ready"), ud,
                        events \o <<Sent(telegram_id, "Your results are available on the portal.")>>)
          [] flow.stage = "ready_no_pdf" ->
                Handled(update_user_status(d, telegram_id, "results_ready"), ud,
                        events \o <<Sent(telegram_id, "I couldn't download the PDF.")>>)
          [] flow.stage = "document" ->
                IF document_sent
                THEN Handled(update_user_status(remove_user(d, telegram_id).db,
                                                telegram_id, "results_ready"), ud,
                             events \o <<SentDocument(telegram_id, flow.pdf_data),
                                         Awaited(telegram_id, "document", TRUE),
                                         Sent(telegram_id, "Results delivered!")>>)
                ELSE Handled(d, ud,
                             events \o <<SentDocument(telegram_id, flow.pdf_data),
                                         Awaited(telegram_id, "document", FALSE)>>
                                    \o failed)))

\* check_all_users is suspended at the await of a send to one user; what
\* is left of that user's iteration, and the users it has yet to check.
Awaiting(telegram_id, sending, rest, users) ==
    [state |-> "awaiting", telegram_id |-> telegram_id, sending |-> sending,
     rest |-> rest, users |-> users]

Cycled(d, c, events) == [db |-> d, cycle |-> c, events |-> events]

\* The loop of check_all_users over the users it has yet to check, up to
\* the first await: the iterations that send nothing run on, one after the
\* other, and the loop ends when no user is left.
RECURSIVE for_users(_, _, _, _)
for_users(users, d, scripts, events) ==
    IF users = <<>> THEN Cycled(d, Idle, events)
    ELSE
    LET telegram_id == Head(users).telegram_id IN
    With(Flows[Head(users).username, Head(users).password, scripts[telegram_id]],
         LAMBDA flow :
    With(events \o OnClient(flow.events, NextClient(events)), LAMBDA done :
        CASE flow.stage = "error" -> for_users(Tail(users), d, scripts, done)
          [] flow.stage = "login_failed" ->
                Cycled(update_user_status(d, telegram_id, "login_failed"),
                       Awaiting(telegram_id, "message", "nothing", Tail(users)),
                       done \o <<Sent(telegram_id, "I couldn't log into your account.")>>)
          [] flow.stage = "pending" ->
                for_users(Tail(users), update_user_status(d, telegram_id, "results_pending"),
                          scripts, done)
          [] flow.stage = "ready" ->
                Cycled(d, Awaiting(telegram_id, "message", "update_user_status", Tail(users)),
                       done \o <<Sent(telegram_id, "Your results are available on the portal.")>>)
          [] flow.stage = "ready_no_pdf" ->
                Cycled(d, Awaiting(telegram_id, "message", "update_user_status", Tail(users)),
                       done \o <<Sent(telegram_id, "I couldn't download the PDF.")>>)
          [] flow.stage = "document" ->
                Cycled(d, Awaiting(telegram_id, "document", "remove_user", Tail(users)),
                       done \o <<SentDocument(telegram_id, flow.pdf_data)>>)))

\* LabBot.check_all_users, from its start to its first await or to its end.
check_all_users(d, scripts) ==
    for_users(get_all_active_users(d), d, scripts, <<Handler("check_all_users", 0)>>)

\* A cycle whose try block encloses the loop: a send that raises ends the
\* cycle, and the users it has yet to check are left out.
check_all_users_resumed_try_around_loop(d, c, scripts, sent) ==
    LET after == IF c.rest = "nothing" THEN d
                 ELSE IF c.rest = "remove_user"
                 THEN update_user_status(remove_user(d, c.telegram_id).db,
                                         c.telegram_id, "results_ready")
                 ELSE update_user_status(d, c.telegram_id, "results_ready")
        events == <<Handler("check_all_users", 0), Awaited(c.telegram_id, c.sending, sent)>>
    IN  IF ~ sent THEN Cycled(d, Idle, events)
        ELSE for_users(c.users, after, scripts, events)

\* check_all_users, from the await it is suspended at to the next one or to
\* its end.  sent: the send returns, and the rest of the iteration runs;
\* otherwise the send raises, and the except clause of the iteration ends it.
check_all_users_resumed(d, c, scripts, sent) ==
    LET after == IF ~ sent \/ c.rest = "nothing" THEN d
                 ELSE IF c.rest = "remove_user"
                 THEN update_user_status(remove_user(d, c.telegram_id).db,
                                         c.telegram_id, "results_ready")
                 ELSE update_user_status(d, c.telegram_id, "results_ready")
    IN  for_users(c.users, after, scripts,
                  <<Handler("check_all_users", 0),
                    Awaited(c.telegram_id, c.sending, sent)>>)

(***************************************************************************)
(* The bot: the users send commands and messages in any order, the         *)
(* periodic check runs when it is not already running, and the portal      *)
(* answers each client in any of the ways of PortalScripts.  A handler     *)
(* runs from start to end; check_all_users gives way at each await.        *)
(***************************************************************************)

Handle(name, telegram_id, h) ==
    /\ db' = h.db
    /\ user_data' = h.user_data
    /\ log' = <<Handler(name, telegram_id)>> \o h.events
    /\ unsubscribed' =
          IF \E i \in DOMAIN h.events :
                h.events[i].ev = "send"
                /\ h.events[i].text = "Your credentials have been removed."
          THEN unsubscribed \cup { telegram_id }
          ELSE IF \E i \in DOMAIN h.events :
                     h.events[i].ev = "send"
                     /\ h.events[i].text = "Credentials saved successfully!"
          THEN unsubscribed \ { telegram_id }
          ELSE unsubscribed
    /\ UNCHANGED cycle
    /\ UNCHANGED clientvars

AddCredentials ==
    /\ log = <<>>
    /\ \E telegram_id \in TelegramIds :
          Handle("add_credentials", telegram_id, add_credentials(db, user_data, telegram_id))

HandleMessage ==
    /\ log = <<>>
    /\ \E telegram_id \in TelegramIds, text \in MessageTexts,
          rs \in { script.login : script \in PortalScripts }, replies \in ReplyOutcomes :
          Handle("handle_message", telegram_id,
                 OnUpdate(telegram_id, text,
                          handle_message(db, user_data, telegram_id, text, rs, replies)))

RemoveCredentials ==
    /\ log = <<>>
    /\ \E telegram_id \in TelegramIds :
          Handle("remove_credentials", telegram_id,
                 remove_credentials(db, user_data, telegram_id))

CheckNow ==
    /\ log = <<>>
    /\ \E telegram_id \in TelegramIds, script \in PortalScripts, document_sent \in BOOLEAN :
          Handle("check_now", telegram_id,
                 check_now(db, user_data, telegram_id, script, document_sent))

Cycle(c) ==
    /\ db' = c.db
    /\ cycle' = c.cycle
    /\ log' = c.events
    /\ UNCHANGED <<user_data, unsubscribed>>
    /\ UNCHANGED clientvars

CheckAllUsers ==
    /\ log = <<>>
    /\ cycle = Idle
    /\ \E scripts \in [TelegramIds -> PortalScripts] :
          Cycle(check_all_users(db, scripts))

CheckAllUsersResumed ==
    /\ log = <<>>
    /\ cycle # Idle
    /\ \E scripts \in [TelegramIds -> PortalScripts], sent \in BOOLEAN :
          Cycle(check_all_users_resumed(db, cycle, scripts, sent))

\* The log of the handler that ran is put aside.
LogRead ==
    /\ log # <<>>
    /\ log' = <<>>
    /\ UNCHANGED <<db, user_data, cycle, unsubscribed>>
    /\ UNCHANGED clientvars

NextBot ==
    \/ AddCredentials \/ HandleMessage \/ RemoveCredentials \/ CheckNow
    \/ CheckAllUsers \/ CheckAllUsersResumed \/ LogRead

SpecBot == Init /\ [][NextBot]_vars

(***************************************************************************)
(* Claims about the bot.                                                   *)
(***************************************************************************)

\* A login call whose login page arrived and holds no form element.
NoFormLogin(e) ==
    /\ e.ev = "call" /\ e.op = "login"
    /\ RaisedBy(e.responses[1]) = Null
    /\ ~ Contains("<form", Lower(response_text(e.responses[1])))

\* C9: a login whose login page holds no form element returns false without
\* a POST request, and the handler calls nothing else on that client.
C9_NoFormStopsFlow ==
    \A i \in DOMAIN log :
        NoFormLogin(log[i])
            => /\ log[i].outcome = Ret(FALSE)
               /\ \A k \in DOMAIN log[i].requests : log[i].requests[k].method # "POST"
               /\ \A j \in DOMAIN log :
                     log[j].ev = "call" /\ log[j].client = log[i].client => j = i

\* The periodic check finds the results of its first user pending and the
\* login page of its second user without a form.
C9_Witness ==
    /\ log # <<>> /\ log[1].name = "check_all_users"
    /\ \E i, j \in DOMAIN log :
          /\ log[j].ev = "call" /\ log[j].op = "check_results" /\ j < i
          /\ NoFormLogin(log[i])
          /\ log[i].client # log[j].client
          /\ log[i].requests = <<Request("GET", login_url)>>

(***************************************************************************)
(* Claims about the success test of login.                                 *)
(***************************************************************************)

\* login submitted the form and the submission was answered without error.
FormSubmitted ==
    Called("login") /\ Len(requests) = 2 /\ FetchesSucceeded

\* The body of the response to the submission, in lower case.
SubmissionBody == Lower(response_text(call.responses[2]))

HasMarker(body) ==
    \E m \in { "logout", "sair", "resultados", "results", "bem-vindo", "welcome",
               "dashboard", "painel", "exames", "laudos" } : Contains(m, body)

\* C11: after a successful form submission login returns true exactly when
\* the body holds a post-login marker or holds neither "entrar" nor "login";
\* a body with no marker and with one of the two tokens gives false.
C11_TrueIffMarkerOrNeitherToken ==
    FormSubmitted
        => outcome = Ret(\/ HasMarker(SubmissionBody)
                         \/ /\ ~ Contains("entrar", SubmissionBody)
                            /\ ~ Contains("login", SubmissionBody))

(***************************************************************************)
(* Claims about the calls of the handlers on their clients.                *)
(***************************************************************************)

\* The handler of the log is one of the two that check results.
ChecksResults ==
    log # <<>> /\ log[1].name \in { "check_now", "check_all_users" }

\* The clients constructed in the log, and the calls on one of them in the
\* order of the log.
ClientsOfLog == { log[i].client : i \in { j \in DOMAIN log : log[j].ev = "LabCrawler" } }

CallsOn(c) == SelectSeq(log, LAMBDA e : e.ev = "call" /\ e.client = c)

CallOrder == <<"login", "check_results", "get_pdf_link", "download_pdf">>

\* A call returned a value that lets the flow go on: true, or a URL.
ReturnedPositive(e) ==
    /\ e.outcome.kind = "return"
    /\ IF e.op \in { "login", "check_results" } THEN e.outcome.value = TRUE
       ELSE e.outcome.value # Null

\* C12: in check_now and check_all_users the calls on one client are login,
\* check_results, get_pdf_link, download_pdf in this order, each at most
\* once, each after a positive result of the one before, and download_pdf
\* is given the URL that get_pdf_link returned on that client.
C12_CallsInOrder ==
    ChecksResults
        => \A c \in ClientsOfLog :
              LET calls == CallsOn(c) IN
              /\ Len(calls) <= 4
              /\ \A k \in 1..Len(calls) :
                    /\ calls[k].op = CallOrder[k]
                    /\ k > 1 => ReturnedPositive(calls[k - 1])
                    /\ k = 4 => calls[4].args = <<calls[3].outcome.value>>

\* One cycle checks a user whose results are pending (two calls, no
\* notification) and then a user whose PDF it downloads (four calls).
C12_Witness ==
    /\ log # <<>> /\ log[1].name = "check_all_users"
    /\ \E c1, c2 \in ClientsOfLog :
          /\ c1 < c2
          /\ Len(CallsOn(c1)) = 2 /\ ~ ReturnedPositive(CallsOn(c1)[2])
          /\ Len(CallsOn(c2)) = 4 /\ CallsOn(c2)[4].outcome.value # None

\* The positions in the log of the constructions of client c and of the
\* login calls on it.
ConstructionsOf(c) == { i \in DOMAIN log : log[i].ev = "LabCrawler" /\ log[i].client = c }

LoginsOn(c) ==
    { i \in DOMAIN log : log[i].ev = "call" /\ log[i].client = c /\ log[i].op = "login" }

\* C13: every login is the first call on a client constructed just before
\* it; a client is constructed once, receives one login, and so is used
\* with the credentials of one user only.
C13_FreshClientPerLogin ==
    /\ \A i \in DOMAIN log :
          log[i].ev = "call" /\ log[i].op = "login"
              => /\ i > 1 /\ log[i - 1].ev = "LabCrawler"
                 /\ log[i - 1].client = log[i].client
    /\ \A c \in ClientsOfLog :
          /\ Cardinality(ConstructionsOf(c)) = 1
          /\ Cardinality(LoginsOn(c)) = 1
          /\ \A i \in DOMAIN log :
                log[i].ev = "call" /\ log[i].client = c
                    => \A k \in ConstructionsOf(c) : k < i
    /\ \A i \in DOMAIN log : log[i].ev = "call" => log[i].client \in ClientsOfLog

\* One cycle logs in for two users with different credentials, on two
\* clients.
C13_Witness ==
    \E i, j \in DOMAIN log :
        /\ i < j
        /\ log[i].ev = "call" /\ log[i].op = "login"
        /\ log[j].ev = "call" /\ log[j].op = "login"
        /\ log[i].args # log[j].args
        /\ log[i].client # log[j].client

(***************************************************************************)
(* The credential store on its own: its operations are called in any      *)
(* order, with any arguments.                                              *)
(***************************************************************************)

Statuses == { "results_ready", "results_pending", "login_failed" }

StorePasswords == { "ABC123DEF", "XYZ789" }

\* The operation ends: its arguments, the table before it, what it returned.
Stored(op, args, d, value) ==
    /\ pc' = "returned"
    /\ call' = [op |-> op, args |-> args, before |-> db]
    /\ outcome' = Ret(value)
    /\ db' = d
    /\ UNCHANGED <<results_url, requests, tested, user_data, cycle, log, unsubscribed>>

AddUser ==
    /\ pc = "idle"
    /\ \E id \in TelegramIds, u \in Usernames, p \in StorePasswords :
          Stored("add_user", <<id, u, p>>, add_user(db, id, u, p), TRUE)

RemoveUser ==
    /\ pc = "idle"
    /\ \E id \in TelegramIds :
          Stored("remove_user", <<id>>, remove_user(db, id).db, remove_user(db, id).value)

GetUser ==
    /\ pc = "idle"
    /\ \E id \in TelegramIds : Stored("get_user", <<id>>, db, get_user(db, id))

GetAllActiveUsers ==
    /\ pc = "idle"
    /\ Stored("get_all_active_users", <<>>, db, get_all_active_users(db))

UpdateUserStatus ==
    /\ pc = "idle"
    /\ \E id \in TelegramIds, status \in Statuses :
          Stored("update_user_status", <<id, status>>,
                 update_user_status(db, id, status), Null)

DeactivateUser ==
    /\ pc = "idle"
    /\ \E id \in TelegramIds :
          Stored("deactivate_user", <<id>>, deactivate_user(db, id), Null)

NextStore ==
    \/ AddUser \/ RemoveUser \/ GetUser \/ GetAllActiveUsers
    \/ UpdateUserStatus \/ DeactivateUser \/ Return

SpecStore == Init /\ [][NextStore]_vars

\* The entries of the list of active users that belong to id.
EntriesOf(d, id) ==
    { i \in DOMAIN get_all_active_users(d) : get_all_active_users(d)[i].telegram_id = id }

\* The credentials stored for id, whether the record is active or not.
CredentialsOf(d, id) ==
    IF d[id] = None THEN None
    ELSE [username |-> d[id].username, password |-> d[id].password]

CycleRan == log # <<>> /\ log[1].name = "check_all_users"

\* The users to whom the log sends a message or a document.
NotifiedInLog == { log[i].chat_id : i \in { j \in DOMAIN log : log[j].ev = "send" } }

\* C15: check_all_users sends no notification (results ready, login failed,
\* document) to a user whom /remove has told that their credentials were
\* removed and who has not registered again, also when /remove is handled
\* while a cycle that has read the list of users is in progress.
C15_NoNotificationAfterRemove ==
    CycleRan => NotifiedInLog \cap unsubscribed = {}

\* The credentials of the records of a list of users, in order.
CredentialsIn(users) == [i \in DOMAIN users |-> <<users[i].username, users[i].password>>]

\* The users a suspended cycle has yet to check.
YetToCheck(c) == IF c = Idle THEN <<>> ELSE c.users

HtmlDownload ==
    /\ Called("download_pdf")
    /\ RaisedBy(call.responses[1]) = Null
    /\ ~ Contains("pdf", Lower(call.responses[1].ctype))
    /\ Contains("html", Lower(call.responses[1].ctype))

\* The k-th request of the call was answered with bytes that start with %PDF.
YieldsPdf(k) ==
    /\ k <= Len(call.responses)
    /\ RaisedBy(call.responses[k]) = Null
    /\ HasSignature(response_content(call.responses[k]))

\* The links of the page that the third strategy follows.
PdfAnchors(soup) ==
    SelectSeq(find_all_a_href(soup.anchors), LAMBDA a : is_pdf_href(a.href))

\* C17: for a response declared as HTML the strategies are tried in the order
\* object, iframe, pdf links; the payload of the first that yields bytes
\* starting with %PDF is returned; each later strategy is attempted whenever
\* the earlier ones did not succeed; null is returned only if none succeeds.
C17_LaterStrategiesAttempted ==
    HtmlDownload
        => LET soup    == BeautifulSoup(call.responses[1])
               decoded == b64decode(soup.object)
               byObject == /\ soup.object # Null /\ soup.object # ""
                           /\ decoded.ok /\ HasSignature(decoded.bytes)
               hasIframe == soup.iframe # Null /\ soup.iframe # ""
               byIframe == hasIframe /\ YieldsPdf(2)
               links   == PdfAnchors(soup)
               first   == IF hasIframe THEN 3 ELSE 2
           IN  /\ byObject
                    => /\ outcome = Ret(Payload(decoded.bytes, "lab_results.pdf"))
                       /\ Len(requests) = 1
               /\ ~ byObject /\ hasIframe
                    => /\ Len(requests) >= 2
                       /\ requests[2] = Request("GET", absolutize(soup.iframe))
               /\ ~ byObject /\ byIframe
                    => /\ outcome = Ret(Payload(response_content(call.responses[2]),
                                                "lab_results.pdf"))
                       /\ Len(requests) = 2
               /\ ~ byObject /\ ~ byIframe /\ links # <<>>
                    => /\ Len(requests) >= first
                       /\ requests[first] = Request("GET", absolutize(links[1].href))
               /\ ~ byObject /\ ~ byIframe
                    => \A k \in 1..Len(links) :
                          /\ first + k - 1 <= Len(requests)
                          /\ YieldsPdf(first + k - 1)
                          /\ \A j \in 1..(k - 1) : ~ YieldsPdf(first + j - 1)
                          => outcome = Ret(Payload(response_content(call.responses[first + k - 1]),
                                                   "lab_results.pdf"))
               /\ outcome = Ret(None)
                    => /\ ~ byObject /\ ~ byIframe
                       /\ Len(requests) = first - 1 + Len(links)
                       /\ \A k \in 1..Len(links) : ~ YieldsPdf(first + k - 1)


(***************************************************************************)
(* The results location of a client.                                       *)
(***************************************************************************)

\* C18: the results location is null on construction and is written only by
\* a login that returns true, which sets it to the final URL of the login
\* response; a login that returns false, check_results (also when it fetches
\* a discovered page), get_pdf_link and download_pdf leave it unchanged.
C18_OnlyLoginWritesLocation ==
    /\ results_url = Null
    /\ [][ IF pc' = "returned" /\ call'.op = "login" /\ outcome' = Ret(TRUE)
           THEN results_url' = call'.responses[Len(call'.responses)].url
           ELSE results_url' = results_url ]_vars

\* After a login has set the location, check_results has fetched a
\* discovered page at another URL and the location is as it was.
C18_Witness ==
    /\ Called("check_results")
    /\ Len(requests) = 2
    /\ call.results_url = results_page_url
    /\ requests[2].url # results_page_url
    /\ results_url = results_page_url


(***************************************************************************)
(* The discovery of the results page in check_results.                     *)
(***************************************************************************)

\* check_results has returned and its first request was answered without an
\* exception.
FirstPageFetched ==
    /\ Called("check_results")
    /\ RaisedBy(call.responses[1]) = Null

\* Discovery is attempted: no results location, or "entrar" on the page.
DiscoveryAttempted ==
    \/ call.results_url = Null
    \/ Contains("entrar", Lower(response_text(call.responses[1])))

\* The hrefs of the anchors of the first page that hold one of the words.
MatchingHrefs ==
    LET as == BeautifulSoup(call.responses[1]).anchors
        ok(a) == /\ a.href # Null
                 /\ \/ Contains("resultado", Lower(a.href))
                    \/ Contains("exame", Lower(a.href))
                    \/ Contains("laudo", Lower(a.href))
    IN  SelectSeq(as, ok)

\* What the evaluation of the rows of a page gives.
RowsVerdict(page) == evaluate_rows(page, <<>>, Null).outcome

\* C19: discovery is attempted exactly when the results location is absent
\* or the fetched page contains "entrar" in any case; then the first anchor
\* whose href contains "resultado", "exame" or "laudo" is fetched once at its
\* absolutized URL and the rows of that page are evaluated; without
\* discovery or without such an anchor the rows of the first page are
\* evaluated; there is at most one re-fetch per call.
C19_DiscoveryOnce ==
    /\ Called("check_results") => Len(requests) <= 2
    /\ FirstPageFetched
         => IF DiscoveryAttempted /\ MatchingHrefs # <<>>
            THEN /\ Len(requests) = 2
                 /\ requests[2] = Request("GET", absolutize(MatchingHrefs[1].href))
                 /\ RaisedBy(call.responses[2]) = Null
                      => outcome = RowsVerdict(BeautifulSoup(call.responses[2]))
            ELSE /\ Len(requests) = 1
                 /\ outcome = RowsVerdict(BeautifulSoup(call.responses[1]))

\* The client has a results location, the page fetched there holds "ENTRAR"
\* and two matching anchors after one that does not match: the first of the
\* two is fetched, and its rows, all green, give true although the first
\* page has no rows.
C19_Witness ==
    /\ FirstPageFetched
    /\ call.results_url # Null
    /\ Len(MatchingHrefs) = 2
    /\ BeautifulSoup(call.responses[1]).anchors[1].href # MatchingHrefs[1].href
    /\ Len(requests) = 2
    /\ BeautifulSoup(call.responses[1]).rows = <<>>
    /\ outcome = Ret(TRUE)


(***************************************************************************)
(* One cycle of check_all_users.                                           *)
(***************************************************************************)

\* The credentials of the logins of a log, in its order.
LoginsIn(events) ==
    LET calls == SelectSeq(events, LAMBDA e : e.ev = "call" /\ e.op = "login")
    IN  [i \in DOMAIN calls |-> <<calls[i].args[1], calls[i].args[2]>>]

\* C20: a cycle of check_all_users checks every user of the list it read at
\* its start exactly once, in the order of the list, and ends: from its
\* start to its first await, and from each await to the next, the users it
\* checks followed by those it has yet to check are the users it had to
\* check, whether the send it awaited returned or raised and whatever the
\* portal answered; each resumption leaves fewer users to check or ends the
\* cycle; no other handler changes the users it has yet to check.
C20_EveryUserOnce ==
    [][ IF log' # <<>> /\ log'[1].name = "check_all_users"
        THEN /\ LoginsIn(log') \o CredentialsIn(YetToCheck(cycle'))
                  = IF cycle = Idle THEN CredentialsIn(get_all_active_users(db))
                    ELSE CredentialsIn(cycle.users)
             /\ Len(LoginsIn(log')) = Cardinality({ i \in DOMAIN log' : log'[i].ev = "LabCrawler" })
             /\ cycle # Idle
                  => /\ log'[2].ev = "awaited" /\ log'[2].chat_id = cycle.telegram_id
                     /\ cycle' = Idle \/ Len(YetToCheck(cycle')) < Len(cycle.users)
             /\ cycle' # Idle
                  => /\ log'[Len(log')].ev = "send"
                     /\ log'[Len(log')].chat_id = cycle'.telegram_id
        ELSE cycle' = cycle ]_vars

\* The send to the first user of the list raised; the cycle went on to log
\* in for the next user and has ended.
C20_Witness ==
    /\ log # <<>> /\ log[1].name = "check_all_users"
    /\ Len(log) >= 4
    /\ log[2].ev = "awaited" /\ ~ log[2].returned
    /\ log[3].ev = "LabCrawler"
    /\ log[4].ev = "call" /\ log[4].op = "login"
    /\ cycle = Idle


\* The scheduling of the event loop: a cycle that is suspended at an await
\* is resumed, whatever other handlers run in between.
SpecBotFair ==
    SpecBot /\ SF_vars(CheckAllUsersResumed) /\ WF_vars(LogRead)

\* Under that scheduling a cycle that has started ends.
CycleEnds == (cycle # Idle) ~> (cycle = Idle)


(***************************************************************************)
(* The /add conversation.                                                  *)
(***************************************************************************)

\* The tokens of a text message.
Tokens(text) == SplitWhitespace(Strip(text))

\* The store is written in the /add conversation only after a login with
\* exactly the credentials written returned true, and never by a message
\* of a user who is not waiting for credentials.
StoreWrittenAfterLogin ==
    [][ log' # <<>> /\ log'[1].name \in { "add_credentials", "handle_message" }
          => LET id == log'[1].telegram_id IN
             /\ \A other \in TelegramIds \ { id } : db'[other] = db[other]
             /\ db'[id] # db[id]
                  => /\ log'[1].name = "handle_message"
                     /\ user_data[id]
                     /\ db'[id] # None
                     /\ db'[id].active = 1
                     /\ \E i \in DOMAIN log' :
                           /\ log'[i].ev = "call" /\ log'[i].op = "login"
                           /\ log'[i].outcome = Ret(TRUE)
                           /\ log'[i].args = <<db'[id].username, db'[id].password>>
                           /\ log'[i].args = Tokens(log'[2].text)
      ]_vars

\* /add sets the waiting flag; a message that is not of exactly two tokens
\* leaves it as it is, and a message of exactly two tokens clears it.
FlagFollowsTokens ==
    [][ /\ log' # <<>> /\ log'[1].name = "add_credentials"
             => user_data' = [user_data EXCEPT ![log'[1].telegram_id] = TRUE]
        /\ log' # <<>> /\ log'[1].name = "handle_message"
             => LET id == log'[1].telegram_id IN
                user_data' = [user_data EXCEPT ![id] =
                                 IF Len(Tokens(log'[2].text)) = 2 THEN FALSE
                                 ELSE user_data[id]]
      ]_vars

\* C21: in the /add conversation credentials are written to the store only
\* after a login with exactly those credentials returned true; a message
\* received while the user is not waiting for credentials never changes the
\* store; the waiting flag set by /add stays set after a message that is not
\* of exactly two tokens and is cleared after every message of exactly two
\* tokens.
C21_AddConversation == StoreWrittenAfterLogin /\ FlagFollowsTokens

=============================================================================
